---- MODULE Spec2Model ----
(***************************************************************************)
(* State-machine model of the awesimsoss exposure simulator:               *)
(*   src/AWESim_SOSS/sim2D/awesim.py   (time axis, TSO construction)       *)
(*   src/awesimsoss/generate_darks.py  (dark ramp, signal compositor,      *)
(*                                      non-linearity, pedestal)           *)
(*                                                                         *)
(* Every Python function is modelled as a call frame: a record holding its *)
(* arguments, its locals under the names the source gives them, and a      *)
(* program counter `pc`.  A frame ends at pc = "returned" or at            *)
(* pc = "raised" with the exception class in `error`.                      *)
(*                                                                         *)
(* Numbers.  Times are kept in milliseconds (5.491 s = 5491) and detector  *)
(* values in fixed point, so float arithmetic is modelled as exact         *)
(* arithmetic on those units wherever the value is exactly representable;  *)
(* the float32 store and the uint32 cast of add_pedestal are modelled by   *)
(* what they do to the value.                                              *)
(***************************************************************************)
EXTENDS Integers, Sequences, FiniteSets, TLC

VARIABLES
    gft,    \* call frame of get_frame_times
    tso,    \* the TSO object under construction (self)
    mex,    \* call frame of make_exposure, with the calls it makes
    sig,    \* call frame of add_signal
    nlin,   \* call frame of non_linearity
    ped,    \* call frame of add_pedestal
    llc,    \* call frame of lambda_lightcurve
    sim     \* call frame of TSO.run_simulation, with its pool of workers

vars == <<gft, tso, mex, sig, nlin, ped, llc, sim>>

\* A frame that is not part of the specification being checked.
Idle == [pc |-> "idle"]

----------------------------------------------------------------------------
(* Helpers                                                                  *)

Range(s) == {s[i] : i \in DOMAIN s}

RECURSIVE Flatten(_)
\* np.concatenate of a list of 1-D arrays
Flatten(ss) == IF ss = <<>> THEN <<>> ELSE Head(ss) \o Flatten(Tail(ss))

----------------------------------------------------------------------------
(* get_frame_times, awesim.py:673-714                                       *)

MaxGrps == 3
MaxInts == 3
MaxResets == 2

\* Start times offered to get_frame_times, in milliseconds.
T0Values == {0, 250}

\* Subarray names offered by callers; the last two are not SOSS subarrays.
SubarrayNames == {"SUBSTRIP256", "SUBSTRIP96", "FULL", "substrip256", "SUBSTRIP80"}

\* awesim.py:696, the names get_frame_times understands
SupportedSubarrays == {"SUBSTRIP256", "SUBSTRIP96", "FULL"}

\* awesim.py:701, seconds per frame, here in milliseconds
frame_times == [SUBSTRIP96 |-> 2213, SUBSTRIP256 |-> 5491, FULL |-> 10737]

\* Mutants of the two helpers below, used to test the claims about the axis:
\* the reset frames kept (times[0:]), and np.arange taken to start at 1.
DropResets_KeepResets(times, nresets) == times
arange_times_FromOne(t, n, ft) == [k \in 1..n |-> t + k * ft]

\* awesim.py:708, t + np.arange(n)*ft
arange_times(t, n, ft) == [k \in 1..n |-> t + (k - 1) * ft]

\* awesim.py:710, times[nresets:] for nresets >= 0
DropResets(times, nresets) == SubSeq(times, nresets + 1, Len(times))

GftEntry(subarray, ngrps, nints, t0, nresets) ==
    [pc |-> "entry", arg_subarray |-> subarray, subarray |-> subarray,
     ngrps |-> ngrps, nints |-> nints, t0 |-> t0, nresets |-> nresets,
     printed |-> "", ft |-> 0, time_axis |-> <<>>, t |-> 0, loop |-> 0,
     result |-> <<>>, error |-> ""]

\* awesim.py:695-706: the subarray check, the frame time, the empty axis
GFT_CheckSubarray ==
    /\ gft.pc = "entry"
    /\ LET sub == IF gft.subarray \notin SupportedSubarrays
                  THEN "SUBSTRIP256" ELSE gft.subarray
       IN gft' = [gft EXCEPT !.pc = "loop",
                             !.subarray = sub,
                             \* line 698 formats the name after line 697 replaced it
                             !.printed = IF gft.subarray \notin SupportedSubarrays
                                         THEN sub ELSE "",
                             !.ft = frame_times[sub],
                             !.time_axis = <<>>,
                             !.t = gft.t0,
                             !.loop = 0]
    /\ UNCHANGED <<tso, mex, sig, nlin, ped, llc, sim>>

\* awesim.py:707-710: one integration of the loop
GFT_Integration ==
    /\ gft.pc = "loop"
    /\ gft.loop < gft.nints
    /\ LET times == arange_times(gft.t, gft.nresets + gft.ngrps, gft.ft)
       IN IF Len(times) = 0
          THEN \* times[-1] of an empty array
               gft' = [gft EXCEPT !.pc = "raised", !.error = "IndexError"]
          ELSE gft' = [gft EXCEPT !.t = times[Len(times)] + gft.ft,
                                  !.time_axis = Append(gft.time_axis,
                                                       DropResets(times, gft.nresets)),
                                  !.loop = gft.loop + 1]
    /\ UNCHANGED <<tso, mex, sig, nlin, ped, llc, sim>>

\* awesim.py:712-714: np.concatenate and return
GFT_Concatenate ==
    /\ gft.pc = "loop"
    /\ gft.loop >= gft.nints
    /\ IF gft.time_axis = <<>>
       THEN \* np.concatenate([]) : need at least one array to concatenate
            gft' = [gft EXCEPT !.pc = "raised", !.error = "ValueError"]
       ELSE gft' = [gft EXCEPT !.pc = "returned",
                               !.result = Flatten(gft.time_axis)]
    /\ UNCHANGED <<tso, mex, sig, nlin, ped, llc, sim>>

----------------------------------------------------------------------------
(* TSO.__init__, awesim.py:768-794                                          *)

\* awesim.py:770, "'256' in subarray" / "'96' in subarray" on the names offered
Has256(name) == name \in {"SUBSTRIP256", "substrip256"}
Has96(name) == name \in {"SUBSTRIP96"}

\* awesim.py:770
tso_nrows(subarray) == IF Has256(subarray) THEN 256 ELSE IF Has96(subarray) THEN 96 ELSE 2048

TsoEntry(subarray, ngrps, nints, t0) ==
    [pc |-> "entry", subarray |-> subarray, ngrps |-> ngrps, nints |-> nints,
     t0 |-> t0, nrows |-> 0, ncols |-> 0, nresets |-> 0, time |-> <<>>,
     nframes |-> 0, wave_rows |-> 0, error |-> ""]

\* awesim.py:768-775: the exposure attributes, up to the call of get_frame_times
TSO_SetExposure ==
    /\ tso.pc = "entry"
    /\ tso' = [tso EXCEPT !.pc = "get_frame_times",
                          !.nrows = tso_nrows(tso.subarray),
                          !.ncols = 2048,
                          !.nresets = 1]
    /\ gft' = GftEntry(tso.subarray, tso.ngrps, tso.nints, tso.t0, 1)
    /\ UNCHANGED <<mex, sig, nlin, ped, llc, sim>>

\* awesim.py:775-794: the time axis comes back; the rest of the attributes
TSO_SetTarget ==
    /\ tso.pc = "get_frame_times"
    /\ gft.pc = "returned"
    /\ tso' = [tso EXCEPT !.pc = "returned",
                          !.time = gft.result,
                          !.nframes = Len(gft.result),
                          \* line 787, wave_solutions(str(self.nrows)): wave[:, :idx]
                          !.wave_rows = tso.nrows]
    /\ UNCHANGED <<gft, mex, sig, nlin, ped, llc, sim>>

\* awesim.py:775: an exception of get_frame_times leaves __init__
TSO_Propagate ==
    /\ tso.pc = "get_frame_times"
    /\ gft.pc = "raised"
    /\ tso' = [tso EXCEPT !.pc = "raised", !.error = gft.error]
    /\ UNCHANGED <<gft, mex, sig, nlin, ped, llc, sim>>

\* Either get_frame_times is called directly, or a TSO is constructed.
InitFrameTimes ==
    /\ \E subarray \in SubarrayNames, ngrps \in 0..MaxGrps, nints \in 0..MaxInts,
          t0 \in T0Values :
          \/ /\ \E nresets \in 0..MaxResets :
                    gft = GftEntry(subarray, ngrps, nints, t0, nresets)
             /\ tso = Idle
          \/ /\ gft = Idle
             /\ tso = TsoEntry(subarray, ngrps, nints, t0)
    /\ mex = Idle
    /\ sig = Idle
    /\ nlin = Idle
    /\ ped = Idle
    /\ llc = Idle
    /\ sim = Idle

NextFrameTimes ==
    \/ GFT_CheckSubarray
    \/ GFT_Integration
    \/ GFT_Concatenate
    \/ TSO_SetExposure
    \/ TSO_SetTarget
    \/ TSO_Propagate

SpecFrameTimes == InitFrameTimes /\ [][NextFrameTimes]_vars

----------------------------------------------------------------------------
(* Arrays and random draws shared by generate_darks.py                      *)

\* The pixels of an image of shape <<nrows, ncols>>, as <<row, col>>.
Pix(shape) == (1..shape[1]) \X (1..shape[2])

\* np.zeros: an image of the shape filled with v
Full(shape, v) == [p \in Pix(shape) |-> v]

\* Detector values are kept in half-ADU, so that electrons / gain is exact
\* for the gains offered (1 and 2).
PerGain(electrons, gain) == (2 * electrons) \div gain

RECURSIVE Ulp32(_, _)
\* The spacing of float32 numbers around magnitude a, in the units of a:
\* a float32 keeps 24 significant bits.
Ulp32(a, p) == IF a \div p < 2^24 THEN p ELSE Ulp32(a, 2 * p)

\* A store into a float32 array: round to 24 significant bits, ties to even.
ToFloat32(v) ==
    LET a == IF v < 0 THEN -v ELSE v
        u == Ulp32(a, 1)
        q == a \div u
        r == a % u
        m == IF 2 * r < u THEN q
             ELSE IF 2 * r > u THEN q + 1
             ELSE IF q % 2 = 0 THEN q ELSE q + 1
    IN IF v < 0 THEN -(m * u) ELSE m * u

MaxDraw == 1

\* np.random.poisson(lam) for one pixel: the counts it can return (cut at
\* MaxDraw).  A negative lam raises ValueError instead.
PoissonOutcomes(lam) == IF lam = 0 THEN {0} ELSE 0..MaxDraw

----------------------------------------------------------------------------
(* make_exposure and add_dark_current, generate_darks.py:10-123             *)

MaxExpInts == 2
MaxExpGrps == 2

\* A seed argument is <<>> for None and <<s>> for the integer s.
NoiseSeedArgs == {<<>>, <<0>>, <<11>>}
DarkSeedArgs == {<<>>, <<0>>, <<4>>, <<-1>>}

\* int(np.random.uniform()*4000000000.): a few of the values it can take
UniformInts == {0, 1}

\* Shapes of the dark-signal map, and the maps offered (electrons per
\* frame): dark and bright single pixels, one with a negative entry, and a
\* two-column map whose first pixel alone collects dark current.
DarkShapes == {<<1, 1>>, <<1, 2>>}
DarkSignals == {Full(<<1, 1>>, 0), Full(<<1, 1>>, 1), Full(<<1, 1>>, -1),
                [p \in Pix(<<1, 2>>) |-> IF p = <<1, 1>> THEN 1 ELSE 0]}
Gains == {1, 2}

\* The shape of an image given as a function on Pix(shape).
ShapeOf(img) == CHOOSE sh \in DarkShapes : DOMAIN img = Pix(sh)

\* generate_darks.py:76 and 79, Python's "not seed": None and 0 are both falsy
Falsy(seed) == IF seed = <<>> THEN TRUE ELSE seed[1] = 0

\* The mutant of NoOpRequest: "and" in place of "or".
NoOpRequest_Both(nints, ngrps) == nints < 1 /\ ngrps < 1

\* generate_darks.py:73, the request for an exposure without frames
NoOpRequest(nints, ngrps) == nints < 1 \/ ngrps < 1

\* The planes noise_simulation.HXRGNoise.mknoise is taken to return (the
\* same plane for every group of a call), indexed <<naxis2, naxis1>> =
\* <<col, row>> (detector coordinates), in half-ADU: flat zero, or one count
\* in the first detector pixel.
NoisePlanes(nrows, ncols) ==
    {[q \in (1..ncols) \X (1..nrows) |-> 0],
     [q \in (1..ncols) \X (1..nrows) |-> IF q = <<1, 1>> THEN 2 ELSE 0]}

\* generate_darks.py:117-118, np.transpose(ramp,(0,2,1)) then [::, ::-1, ::-1]
Reorient(plane, nrows, ncols) ==
    [p \in (1..nrows) \X (1..ncols) |-> plane[<<ncols + 1 - p[2], nrows + 1 - p[1]>>]]

\* The draws np.random.poisson(darksignal) makes for ngrps groups after
\* np.random.seed(seed): a seeded generator repeats its stream, so the draws
\* of a seed are chosen the first time the seed is used and kept.
StreamsFor(darksignal, ngrps) ==
    [1..ngrps -> {d \in [DOMAIN darksignal -> 0..MaxDraw] :
                     \A p \in DOMAIN darksignal : d[p] \in PoissonOutcomes(darksignal[p])}]

HasStream(streams, seed) == \E i \in DOMAIN streams : streams[i].seed = seed
StreamOf(streams, seed) == streams[CHOOSE i \in DOMAIN streams : streams[i].seed = seed].draws

\* The mutant of DarkTotals: every group given its own draw alone.
DarkTotals_PerGroup(draws, gain, n) ==
    [k \in 1..n |-> [p \in DOMAIN draws[k] |-> PerGain(draws[k][p], gain)]]

RECURSIVE DarkTotals(_, _, _)
\* generate_darks.py:35-39: total after each group, total = total + poisson/gain
DarkTotals(draws, gain, n) ==
    IF n = 0 THEN <<>>
    ELSE LET prev == DarkTotals(draws, gain, n - 1)
             before == IF n = 1 THEN [p \in DOMAIN draws[1] |-> 0] ELSE prev[n - 1]
         IN Append(prev, [p \in DOMAIN draws[n] |-> before[p] + PerGain(draws[n][p], gain)])

\* generate_darks.py:10-41, add_dark_current on an ngrps-group ramp
add_dark_current(ramp, draws, gain) ==
    LET total == DarkTotals(draws, gain, Len(ramp))
    IN [n \in 1..Len(ramp) |-> [p \in DOMAIN ramp[n] |-> ramp[n][p] + total[n][p]]]

MexEntry(nints, ngrps, darksignal, gain, noise_seed, dark_seed, run, first, streams) ==
    [pc |-> "entry", nints |-> nints, ngrps |-> ngrps, darksignal |-> darksignal,
     gain |-> gain, arg_noise_seed |-> noise_seed, arg_dark_seed |-> dark_seed,
     offset |-> 500, noise_seed |-> 0, dark_seed |-> 0, dc_seed |-> 0,
     bias_offset |-> 0, loop |-> 0, simulated_data |-> <<>>,
     noisecube |-> <<>>,     \* the arguments HXRGNoise was constructed with
     mknoise_calls |-> <<>>, \* [noise_seed, dc_seed] of every mknoise call
     seed_calls |-> <<>>,    \* the argument of every np.random.seed call
     uniform_calls |-> 0,    \* np.random.uniform calls
     dark_added |-> <<>>,    \* per integration, the totals add_dark_current added
     streams |-> streams,    \* the Poisson streams of the seeds used so far
     run |-> run, first |-> first,
     result |-> "", error |-> ""]

\* generate_darks.py:73-74
ME_ReturnNone ==
    /\ mex.pc = "entry"
    /\ NoOpRequest(mex.nints, mex.ngrps)
    /\ mex' = [mex EXCEPT !.pc = "returned", !.result = "None"]
    /\ UNCHANGED <<gft, tso, sig, nlin, ped, llc, sim>>

\* generate_darks.py:76-105: the seeds, the empty cube, the noise generator
ME_Setup ==
    /\ mex.pc = "entry"
    /\ ~NoOpRequest(mex.nints, mex.ngrps)
    /\ \E u1 \in UniformInts, u2 \in UniformInts :
        LET noise_seed == IF Falsy(mex.arg_noise_seed) THEN 7 + u1
                          ELSE Head(mex.arg_noise_seed)
            dark_seed == IF Falsy(mex.arg_dark_seed) THEN 5 + u2
                         ELSE Head(mex.arg_dark_seed)
            draws == (IF Falsy(mex.arg_noise_seed) THEN 1 ELSE 0)
                     + (IF Falsy(mex.arg_dark_seed) THEN 1 ELSE 0)
            shape == ShapeOf(mex.darksignal)
        IN \* a value that is not drawn does not branch the step
           /\ Falsy(mex.arg_noise_seed) \/ u1 = 0
           /\ Falsy(mex.arg_dark_seed) \/ u2 = 0
           /\ IF dark_seed < 0
              THEN \* np.random.seed: the seed must be between 0 and 2**32 - 1
                   mex' = [mex EXCEPT !.pc = "raised", !.error = "ValueError",
                                      !.noise_seed = noise_seed,
                                      !.dark_seed = dark_seed,
                                      !.uniform_calls = draws]
              ELSE mex' = [mex EXCEPT
                       !.pc = "loop",
                       !.noise_seed = noise_seed,
                       !.dark_seed = dark_seed,
                       !.uniform_calls = draws,
                       !.seed_calls = <<dark_seed>>,
                       !.simulated_data =
                           [n \in 1..(mex.nints * mex.ngrps) |-> Full(shape, ToFloat32(0))],
                       !.dc_seed = dark_seed,
                       !.bias_offset = mex.offset * mex.gain,
                       !.noisecube = <<[naxis1 |-> shape[1], naxis2 |-> shape[2],
                                        naxis3 |-> mex.ngrps]>>,
                       !.loop = 0]
    /\ UNCHANGED <<gft, tso, sig, nlin, ped, llc, sim>>

\* generate_darks.py:108-121: one integration
ME_Integration ==
    /\ mex.pc = "loop"
    /\ mex.loop < mex.nints
    /\ LET shape == ShapeOf(mex.darksignal)
           seed1 == mex.noise_seed + 24 * mex.loop
           call == [noise_seed |-> seed1, dc_seed |-> mex.dc_seed,
                    bias_offset |-> mex.bias_offset]
           negative == \E p \in DOMAIN mex.darksignal : mex.darksignal[p] < 0
       IN \E plane \in NoisePlanes(shape[1], shape[2]) :
          \* lines 115-118: a 2-D result gains its group axis, then the
          \* planes are transposed and flipped
          LET noise == [n \in 1..mex.ngrps |-> plane]
              ramp == [n \in 1..mex.ngrps |-> Reorient(noise[n], shape[1], shape[2])]
          IN IF negative
             THEN \* line 37: np.random.poisson raises on lam < 0
                  mex' = [mex EXCEPT !.pc = "raised", !.error = "ValueError",
                                     !.mknoise_calls = Append(@, call),
                                     !.seed_calls = Append(@, mex.dc_seed)]
             ELSE \E draws \in StreamsFor(mex.darksignal, mex.ngrps) :
                  /\ HasStream(mex.streams, mex.dc_seed) =>
                         draws = StreamOf(mex.streams, mex.dc_seed)
                  /\ LET dark == add_dark_current(ramp, draws, mex.gain)
                         lo == mex.loop * mex.ngrps
                     IN mex' = [mex EXCEPT
                          !.mknoise_calls = Append(@, call),
                          !.seed_calls = Append(@, mex.dc_seed),
                          !.streams = IF HasStream(mex.streams, mex.dc_seed) THEN @
                                      ELSE Append(@, [seed |-> mex.dc_seed, draws |-> draws]),
                          !.dark_added = Append(@, DarkTotals(draws, mex.gain, mex.ngrps)),
                          \* line 120: the slice of this integration, stored as float32
                          !.simulated_data =
                              [n \in DOMAIN @ |->
                                 IF n > lo /\ n <= lo + mex.ngrps
                                 THEN [p \in DOMAIN dark[n - lo] |-> ToFloat32(dark[n - lo][p])]
                                 ELSE @[n]],
                          !.loop = mex.loop + 1]
    /\ UNCHANGED <<gft, tso, sig, nlin, ped, llc, sim>>

\* generate_darks.py:123
ME_Return ==
    /\ mex.pc = "loop"
    /\ mex.loop >= mex.nints
    /\ mex' = [mex EXCEPT !.pc = "returned", !.result = "simulated_data"]
    /\ UNCHANGED <<gft, tso, sig, nlin, ped, llc, sim>>

\* What a run shows of its random sources: the seeds it handed out.
SeedTrace(m) == [mknoise |-> m.mknoise_calls, seeds |-> m.seed_calls,
                 pc |-> m.pc, error |-> m.error]

\* The caller runs make_exposure a second time with the same arguments.
ME_Rerun ==
    /\ mex.pc \in {"returned", "raised"}
    /\ mex.run = 1
    /\ mex' = MexEntry(mex.nints, mex.ngrps, mex.darksignal, mex.gain,
                       mex.arg_noise_seed, mex.arg_dark_seed,
                       2, <<SeedTrace(mex)>>, mex.streams)
    /\ UNCHANGED <<gft, tso, sig, nlin, ped, llc, sim>>

InitExposure ==
    /\ \E nints \in 0..MaxExpInts, ngrps \in 0..MaxExpGrps, darksignal \in DarkSignals,
          gain \in Gains, noise_seed \in NoiseSeedArgs, dark_seed \in DarkSeedArgs :
          mex = MexEntry(nints, ngrps, darksignal, gain, noise_seed, dark_seed,
                         1, <<>>, <<>>)
    /\ gft = Idle
    /\ tso = Idle
    /\ sig = Idle
    /\ nlin = Idle
    /\ ped = Idle
    /\ llc = Idle
    /\ sim = Idle

NextExposure ==
    \/ ME_ReturnNone
    \/ ME_Setup
    \/ ME_Integration
    \/ ME_Return
    \/ ME_Rerun

SpecExposure == InitExposure /\ [][NextExposure]_vars

----------------------------------------------------------------------------
(* add_signal, generate_darks.py:160-223                                    *)

MaxFrames == 2

Abs(x) == IF x < 0 THEN -x ELSE x

\* Seconds per frame offered to add_signal (a whole number of seconds).
FrameTimeArgs == {5}

\* What lies on the detector: a pixel shape with the per-frame science
\* signal (ADU/s, the same image in every frame), the photon-yield map and
\* the zodiacal image (electrons/s).  One-pixel scenes take every sign of
\* signal with a yield of 1 or 2; the two-pixel scenes put a pixel of yield
\* 2 before, or after, a pixel of yield 1, or have no signal at all.
Scenes ==
    {[shape |-> <<1, 1>>, signal |-> Full(<<1, 1>>, s), pyimage |-> Full(<<1, 1>>, y),
      zodi |-> Full(<<1, 1>>, 1)] : s \in {-1, 0, 1}, y \in {1, 2}}
    \cup
    {[shape |-> <<1, 2>>, signal |-> Full(<<1, 2>>, 1),
      pyimage |-> [p \in Pix(<<1, 2>>) |-> IF p[2] = c THEN 2 ELSE 1],
      zodi |-> Full(<<1, 2>>, 0)] : c \in {1, 2}}
    \cup
    {[shape |-> <<1, 2>>, signal |-> Full(<<1, 2>>, 0), pyimage |-> Full(<<1, 2>>, 1),
      zodi |-> Full(<<1, 2>>, 1)]}

ZodiScales == {-1, 0, 1}

\* Dark ramps offered as the cube, in half-ADU: flat, rising and falling.
DarkRamps(nframes, shape) ==
    {[n \in 1..nframes |-> Full(shape, base + slope * (n - 1))] :
        <<base, slope>> \in {<<0, 0>>, <<1, 2>>, <<4, -2>>}}

\* The mutant of SameShape: the column counts are not compared.
SameShape_NoCols(dims1, dims2) == dims1[1] = dims2[1] /\ dims1[2] = dims2[2]

\* generate_darks.py:185, dims1 != dims2 negated
SameShape(dims1, dims2) == dims1 = dims2

\* The mutant of Background: zodi_scale left out.
Background_NoScale(zodi, zodi_scale, frametime) ==
    [p \in DOMAIN zodi |-> zodi[p] * frametime]

\* generate_darks.py:192
Background(zodi, zodi_scale, frametime) ==
    [p \in DOMAIN zodi |-> zodi[p] * zodi_scale * frametime]

\* generate_darks.py:196
FrameSignal(signal, gain, frametime) ==
    [p \in DOMAIN signal |-> signal[p] * gain * frametime]

\* The mutant of DirectRate: the rate without np.abs.
DirectRate_NoAbs(framesignal, pyimage, background) ==
    [p \in DOMAIN framesignal |-> framesignal[p] * pyimage[p] + background[p]]

\* generate_darks.py:212
DirectRate(framesignal, pyimage, background) ==
    [p \in DOMAIN framesignal |-> Abs(framesignal[p] * pyimage[p] + background[p])]

\* np.random.poisson(lam) on an image of non-negative rates
PoissonImages(lam) ==
    {d \in [DOMAIN lam -> 0..MaxDraw] : \A p \in DOMAIN lam : d[p] \in PoissonOutcomes(lam[p])}

HasNegative(img) == \E p \in DOMAIN img : img[p] < 0

\* generate_darks.py:201-204, the pixels given extra yield
YieldPixels(pyimage) == {p \in DOMAIN pyimage : pyimage[p] - 1 > 0}

\* generate_darks.py:202-203, the place of a pixel in the k, l loops
LoopOrder(p, shape) == (p[1] - 1) * shape[2] + p[2]

\* The last pixel the k, l loops give extra yield to.
LastYieldPixel(pyimage, shape) ==
    CHOOSE p \in YieldPixels(pyimage) :
        \A q \in YieldPixels(pyimage) : LoopOrder(q, shape) <= LoopOrder(p, shape)

\* generate_darks.py:205-207: np.sum(np.random.poisson(target, size=n)) for
\* every pixel of extra yield (cut at MaxDraw), nothing elsewhere
ExtraYields(newvalues, pyimage) ==
    {e \in [DOMAIN newvalues -> 0..MaxDraw] :
        \A p \in DOMAIN newvalues :
            (p \notin YieldPixels(pyimage) \/ newvalues[p] = 0) => e[p] = 0}

\* generate_darks.py:205: "n = int(newvalues[k,l])" reuses the name of the
\* frame loop's variable, so after the pixel loops n is the count drawn for
\* the last pixel of extra yield
FrameIndexAfterYield(n, newvalues, pyimage, shape) ==
    IF YieldPixels(pyimage) = {} THEN n
    ELSE newvalues[LastYieldPixel(pyimage, shape)]

Plus(a, b) == [p \in DOMAIN a |-> a[p] + b[p]]

\* The mutant of StoreFrame: every frame stored as its own counts.
StoreFrame_NoAccumulate(newcube, n, newvalues) ==
    [newcube EXCEPT ![n + 1] = [p \in DOMAIN newvalues |-> ToFloat32(newvalues[p])]]

\* generate_darks.py:216-219 for an index n (counted from 0) inside the cube;
\* newcube has the dtype of the dark ramp, float32 from make_exposure
StoreFrame(newcube, n, newvalues) ==
    IF n = 0
    THEN [newcube EXCEPT ![1] = [p \in DOMAIN newvalues |-> ToFloat32(newvalues[p])]]
    ELSE [newcube EXCEPT ![n + 1] =
              [p \in DOMAIN newvalues |-> ToFloat32(newcube[n][p] + newvalues[p])]]

\* The mutant of Compose: the counts added without the division by gain.
Compose_NoGain(cube, newcube, gain) ==
    [n \in DOMAIN cube |-> [p \in DOMAIN cube[n] |-> cube[n][p] + 2 * newcube[n][p]]]

\* generate_darks.py:221, cube + newcube/gain in half-ADU
Compose(cube, newcube, gain) ==
    [n \in DOMAIN cube |->
        [p \in DOMAIN cube[n] |-> ToFloat32(cube[n][p] + PerGain(newcube[n][p], gain))]]

SigEntry(signals, signals_shape, cube, cube_shape, scene, frametime, gain, zodi_scale, photon_yield) ==
    [pc |-> "entry", signals |-> signals, cube |-> cube,
     signals_shape |-> signals_shape, cube_shape |-> cube_shape,
     pyimage |-> scene.pyimage, frametime |-> frametime, gain |-> gain,
     zodi |-> scene.zodi, zodi_scale |-> zodi_scale, photon_yield |-> photon_yield,
     arg_cube |-> cube,      \* the dark ramp as the caller handed it over
     newcube |-> <<>>, background |-> <<>>,
     it |-> 0,               \* the position of range(dims1[0])
     n |-> 0,                \* the variable n
     written |-> <<>>,       \* the indices of newcube stored to, in order
     poisson_calls |-> 0,    \* np.random.poisson calls
     drawn |-> <<>>,         \* per pass: the rate drawn from (photon_yield off)
                             \* and newvalues as it reaches line 216
     result |-> <<>>, error |-> ""]

\* generate_darks.py:182-192: the shape check, the empty ramp, the background
AS_CheckShapes ==
    /\ sig.pc = "entry"
    /\ IF ~SameShape(sig.cube_shape, sig.signals_shape)
       THEN sig' = [sig EXCEPT !.pc = "raised", !.error = "ValueError"]
       ELSE sig' = [sig EXCEPT
                !.pc = "loop",
                !.newcube = [n \in DOMAIN sig.cube |->
                                [p \in DOMAIN sig.cube[n] |-> ToFloat32(sig.cube[n][p] * 0)]],
                !.background = Background(sig.zodi, sig.zodi_scale, sig.frametime),
                !.it = 0]
    /\ UNCHANGED <<gft, tso, mex, nlin, ped, llc, sim>>

\* generate_darks.py:216-219 with whatever n holds by then
AS_Store(n, newvalues, calls, lam) ==
    IF n >= sig.cube_shape[1]
    THEN \* newcube[n,:,:] beyond the last frame
         sig' = [sig EXCEPT !.pc = "raised", !.error = "IndexError", !.n = n,
                            !.poisson_calls = @ + calls,
                            !.drawn = Append(@, [lam |-> lam, newvalues |-> newvalues])]
    ELSE sig' = [sig EXCEPT !.newcube = StoreFrame(sig.newcube, n, newvalues),
                            !.n = n,
                            !.written = Append(@, n),
                            !.it = sig.it + 1,
                            !.poisson_calls = @ + calls,
                            !.drawn = Append(@, [lam |-> lam, newvalues |-> newvalues])]

\* generate_darks.py:195-219: one pass of the frame loop
AS_Frame ==
    /\ sig.pc = "loop"
    /\ sig.it < sig.cube_shape[1]
    /\ LET n == sig.it
           shape == <<sig.cube_shape[2], sig.cube_shape[3]>>
           framesignal == FrameSignal(sig.signals[n + 1], sig.gain, sig.frametime)
       IN IF sig.photon_yield
          THEN IF HasNegative(framesignal)
               THEN \* line 200: lam < 0
                    sig' = [sig EXCEPT !.pc = "raised", !.error = "ValueError", !.n = n]
               ELSE \E first \in PoissonImages(framesignal) :
                    \E extra \in ExtraYields(first, sig.pyimage) :
                      LET n2 == FrameIndexAfterYield(n, first, sig.pyimage, shape)
                          extras == Cardinality(YieldPixels(sig.pyimage))
                      IN IF HasNegative(sig.background)
                         THEN \* line 208: lam < 0
                              sig' = [sig EXCEPT !.pc = "raised", !.error = "ValueError",
                                                 !.n = n2,
                                                 !.poisson_calls = @ + 1 + extras]
                         ELSE \E bg \in PoissonImages(sig.background) :
                                AS_Store(n2, Plus(Plus(first, extra), bg), 2 + extras, <<>>)
          ELSE LET vals == DirectRate(framesignal, sig.pyimage, sig.background)
               IN \E newvalues \in PoissonImages(vals) : AS_Store(n, newvalues, 1, vals)
    /\ UNCHANGED <<gft, tso, mex, nlin, ped, llc, sim>>

\* generate_darks.py:221-223
AS_Return ==
    /\ sig.pc = "loop"
    /\ sig.it >= sig.cube_shape[1]
    /\ sig' = [sig EXCEPT !.pc = "returned",
                          !.result = Compose(sig.cube, sig.newcube, sig.gain)]
    /\ UNCHANGED <<gft, tso, mex, nlin, ped, llc, sim>>

\* The signal cube has the shape of the dark ramp, one frame more, or the
\* other pixel shape.
InitSignal ==
    /\ \E nframes \in 0..MaxFrames, scene \in Scenes, gain \in Gains,
          frametime \in FrameTimeArgs, zodi_scale \in ZodiScales,
          photon_yield \in BOOLEAN, mismatch \in {"none", "frames", "pixels"} :
       \E cube \in DarkRamps(nframes, scene.shape) :
          LET other == IF scene.shape = <<1, 1>> THEN <<1, 2>> ELSE <<1, 1>>
              cube_shape == <<nframes, scene.shape[1], scene.shape[2]>>
          IN CASE mismatch = "none" ->
                    sig = SigEntry([n \in 1..nframes |-> scene.signal], cube_shape,
                                   cube, cube_shape, scene, frametime, gain,
                                   zodi_scale, photon_yield)
               [] mismatch = "frames" ->
                    sig = SigEntry([n \in 1..(nframes + 1) |-> scene.signal],
                                   <<nframes + 1, scene.shape[1], scene.shape[2]>>,
                                   cube, cube_shape, scene, frametime, gain,
                                   zodi_scale, photon_yield)
               [] mismatch = "pixels" ->
                    sig = SigEntry([n \in 1..nframes |-> Full(other, 0)],
                                   <<nframes, other[1], other[2]>>,
                                   cube, cube_shape, scene, frametime, gain,
                                   zodi_scale, photon_yield)
    /\ gft = Idle
    /\ tso = Idle
    /\ mex = Idle
    /\ nlin = Idle
    /\ ped = Idle
    /\ llc = Idle
    /\ sim = Idle

NextSignal ==
    \/ AS_CheckShapes
    \/ AS_Frame
    \/ AS_Return

SpecSignal == InitSignal /\ [][NextSignal]_vars

----------------------------------------------------------------------------
(* non_linearity, generate_darks.py:226-262                                 *)
(* Values here are whole ADU and the arrays float64, whose arithmetic is    *)
(* exact on the values offered; a 1-D or 0-D array is held as the 2-D array *)
(* numpy aligns it to when broadcasting (its shape padded with 1 on the     *)
(* left).                                                                   *)

MaxCoeffs == 2

\* Pixel shapes of the cubes and coefficient stacks offered, and the shapes
\* broadcasting can make of them.
NlShapes == {<<1, 1>>, <<1, 2>>, <<2, 1>>}
BroadcastShapes == (1..2) \X (1..2)

ImgShape(img) == CHOOSE sh \in BroadcastShapes : DOMAIN img = Pix(sh)

\* Frames offered to non_linearity: a level plus the pixel's place, so that
\* pixels differ; coefficient planes: flat -1, 0, 1, or 1 in the first
\* pixel only.
NlFrames(shape) == {[p \in Pix(shape) |-> level + LoopOrder(p, shape) - 1] : level \in {0, 2}}
NlPlanes(shape) ==
    {Full(shape, c) : c \in {-1, 0, 1}}
    \cup {[p \in Pix(shape) |-> IF p = <<1, 1>> THEN 1 ELSE 0]}
NlOffsets == {0, 1, 3}

RECURSIVE Pow(_, _)
\* np.power(x, e) for a whole exponent e >= 0
Pow(x, e) == IF e = 0 THEN 1 ELSE x * Pow(x, e - 1)

\* generate_darks.py:253, np.squeeze: axes of length 1 are dropped, which
\* turns a frame of one column and several rows into a 1-D array (aligned as
\* one row); frames of other shapes keep their alignment
Squeeze(img) ==
    LET sh == ImgShape(img)
    IN IF sh[2] = 1 /\ sh[1] > 1
       THEN [p \in Pix(<<1, sh[1]>>) |-> img[<<p[2], 1>>]]
       ELSE img

\* numpy broadcasting of two aligned shapes
Compatible(sa, sb) == \A i \in 1..2 : sa[i] = sb[i] \/ sa[i] = 1 \/ sb[i] = 1
BShape(sa, sb) == <<IF sa[1] > sb[1] THEN sa[1] ELSE sb[1],
                    IF sa[2] > sb[2] THEN sa[2] ELSE sb[2]>>

\* The element of img that broadcasting puts at pixel p.
At(img, p) ==
    LET sh == ImgShape(img)
    IN img[<<IF sh[1] = 1 THEN 1 ELSE p[1], IF sh[2] = 1 THEN 1 ELSE p[2]>>]

BMul(a, b) == [p \in Pix(BShape(ImgShape(a), ImgShape(b))) |-> At(a, p) * At(b, p)]
BAdd(a, b) == [p \in Pix(BShape(ImgShape(a), ImgShape(b))) |-> At(a, p) + At(b, p)]

\* An array can be stored into a slot when each axis fits or has length 1.
Storable(src, dst) == \A i \in 1..2 : src[i] = dst[i] \/ src[i] = 1

\* The mutant of PowerOfPlane: plane n taken to multiply the power n.
PowerOfPlane_Same(n) == n

\* generate_darks.py:256, the power that plane n (counted from 1 here, from
\* 0 in the code) multiplies: np.power(frame, n+1) for the code's n
PowerOfPlane(n) == n + 1

RECURSIVE PolySum(_, _, _, _)
\* generate_darks.py:254-256: sum1 after the planes n, n-1, ..., 1 were added
\* to acc, in that (descending) order
PolySum(frame, nonlinearity, n, acc) ==
    IF n = 0 THEN acc
    ELSE PolySum(frame, nonlinearity, n - 1,
                 BAdd(acc, BMul(nonlinearity[n],
                                [p \in DOMAIN frame |-> Pow(frame[p], PowerOfPlane(n - 1))])))

\* generate_darks.py:253-257: the corrected frame, before it is stored
CorrectedFrame(slice, nonlinearity) ==
    LET frame == Squeeze(slice)
        zero == [p \in DOMAIN frame |-> frame[p] * 0]
        sum1 == PolySum(frame, nonlinearity, Len(nonlinearity), zero)
    IN BMul(frame, [p \in DOMAIN sum1 |-> 1 + sum1[p]])

\* Whether lines 253-257 broadcast without error, and the shape they give.
CorrectionBroadcasts(frame_shape, coeff_shape, ncoeff) ==
    ncoeff = 0 \/ Compatible(coeff_shape, frame_shape)
CorrectedShape(frame_shape, coeff_shape, ncoeff) ==
    IF ncoeff = 0 THEN frame_shape ELSE BShape(coeff_shape, frame_shape)

\* The mutant of RowsDiffer: rows or columns differ.
RowsDiffer_OrCols(dims1, dims2) == dims1[2] # dims2[2] \/ dims1[3] # dims2[3]

\* generate_darks.py:247: both sides of the "|" compare axis 1, the rows
RowsDiffer(dims1, dims2) == (dims1[2] # dims2[2]) \/ (dims1[2] # dims2[2])

NlEntry(cube, cube_shape, nonlinearity, coeff_shape, offset) ==
    [pc |-> "entry", cube |-> cube, nonlinearity |-> nonlinearity, offset |-> offset,
     dims1 |-> coeff_shape, dims2 |-> cube_shape,
     arg_cube |-> cube,      \* the ramp as the caller handed it over
     newcube |-> <<>>, k |-> 0, result |-> <<>>, error |-> ""]

\* generate_darks.py:244-251: the shape check, and the ramp less the offset
NL_CheckShapes ==
    /\ nlin.pc = "entry"
    /\ IF RowsDiffer(nlin.dims1, nlin.dims2)
       THEN nlin' = [nlin EXCEPT !.pc = "raised", !.error = "ValueError"]
       ELSE nlin' = [nlin EXCEPT
                !.pc = "loop",
                !.newcube = [k \in DOMAIN nlin.cube |->
                               [p \in DOMAIN nlin.cube[k] |-> nlin.cube[k][p] - nlin.offset]],
                !.k = 0]
    /\ UNCHANGED <<gft, tso, mex, sig, ped, llc, sim>>

\* generate_darks.py:252-258: one frame
NL_Frame ==
    /\ nlin.pc = "loop"
    /\ nlin.k < nlin.dims2[1]
    /\ LET slot == <<nlin.dims2[2], nlin.dims2[3]>>
           slice == nlin.newcube[nlin.k + 1]
           frame_shape == ImgShape(Squeeze(slice))
           coeff_shape == <<nlin.dims1[2], nlin.dims1[3]>>
       IN IF ~CorrectionBroadcasts(frame_shape, coeff_shape, nlin.dims1[1])
          THEN \* line 256: operands could not be broadcast together
               nlin' = [nlin EXCEPT !.pc = "raised", !.error = "ValueError"]
          ELSE IF ~Storable(CorrectedShape(frame_shape, coeff_shape, nlin.dims1[1]), slot)
          THEN \* line 258: could not broadcast input array into the slice
               nlin' = [nlin EXCEPT !.pc = "raised", !.error = "ValueError"]
          ELSE LET sum1 == CorrectedFrame(slice, nlin.nonlinearity)
               IN nlin' = [nlin EXCEPT
                      !.newcube[nlin.k + 1] = [p \in Pix(slot) |-> At(sum1, p)],
                      !.k = nlin.k + 1]
    /\ UNCHANGED <<gft, tso, mex, sig, ped, llc, sim>>

\* generate_darks.py:260-262
NL_Return ==
    /\ nlin.pc = "loop"
    /\ nlin.k >= nlin.dims2[1]
    /\ nlin' = [nlin EXCEPT
            !.pc = "returned",
            !.result = [k \in DOMAIN nlin.newcube |->
                          [p \in DOMAIN nlin.newcube[k] |-> nlin.newcube[k][p] + nlin.offset]]]
    /\ UNCHANGED <<gft, tso, mex, sig, ped, llc, sim>>

InitNonLinearity ==
    /\ \E nframes \in 0..MaxFrames, ncoeff \in 0..MaxCoeffs,
          shape \in NlShapes, coeff_shape \in NlShapes, offset \in NlOffsets :
       \E cube \in [1..nframes -> NlFrames(shape)],
          nonlinearity \in [1..ncoeff -> NlPlanes(coeff_shape)] :
          nlin = NlEntry(cube, <<nframes, shape[1], shape[2]>>,
                         nonlinearity, <<ncoeff, coeff_shape[1], coeff_shape[2]>>, offset)
    /\ gft = Idle
    /\ tso = Idle
    /\ mex = Idle
    /\ sig = Idle
    /\ ped = Idle
    /\ llc = Idle
    /\ sim = Idle

NextNonLinearity ==
    \/ NL_CheckShapes
    \/ NL_Frame
    \/ NL_Return

SpecNonLinearity == InitNonLinearity /\ [][NextNonLinearity]_vars

----------------------------------------------------------------------------
(* add_pedestal, generate_darks.py:265-295                                  *)
(* The ramp is in half-ADU again.  Values here reach past 2^32 ADU, so a    *)
(* number is a pair <<hi, lo>> standing for hi * LimbBase + lo, with        *)
(* 0 <= lo < LimbBase; the result of the cast is such a pair in whole ADU.  *)

LimbBase == 2^16

Norm(hi, lo) == <<hi + (lo \div LimbBase), lo % LimbBase>>
NOfInt(i) == Norm(0, i)
NAdd(a, b) == Norm(a[1] + b[1], a[2] + b[2])
NNeg(a) == Norm(-a[1], -a[2])
NSub(a, b) == NAdd(a, NNeg(b))
NIsNeg(a) == a[1] < 0
NLess(a, b) == a[1] < b[1] \/ (a[1] = b[1] /\ a[2] < b[2])

RECURSIVE BitLen(_)
BitLen(i) == IF i = 0 THEN 0 ELSE 1 + BitLen(i \div 2)

\* float32 rounding of a magnitude (24 significant bits, ties to even), for
\* magnitudes below LimbBase * 2^24
Float32Mag(a) ==
    IF BitLen(a[1]) <= 8 THEN a
    ELSE LET u == 2^(BitLen(a[1]) - 8)      \* the spacing, at most LimbBase
             q == a[2] \div u
             r == a[2] % u
             odd == IF u = LimbBase THEN a[1] % 2 = 1 ELSE q % 2 = 1
             up == IF 2 * r > u \/ (2 * r = u /\ odd) THEN 1 ELSE 0
         IN Norm(a[1], (q + up) * u)

\* generate_darks.py:288, 292: a store into the float32 array newcube
ToFloat32N(a) == IF NIsNeg(a) THEN NNeg(Float32Mag(NNeg(a))) ELSE Float32Mag(a)

\* Half of a magnitude in half-ADU, rounded to the nearest whole ADU: the
\* mutant of TruncMag.
TruncMag_Nearest(a) ==
    LET b == NAdd(a, <<0, 1>>)
    IN <<b[1] \div 2, ((b[1] % 2) * LimbBase + b[2]) \div 2>>

\* The whole ADU of a magnitude in half-ADU, fraction dropped.
TruncMag(a) == <<a[1] \div 2, ((a[1] % 2) * LimbBase + a[2]) \div 2>>

\* The C conversion of a float to an integer: toward zero.
TruncToInt(a) == IF NIsNeg(a) THEN NNeg(TruncMag(NNeg(a))) ELSE TruncMag(a)

Uint32Max == <<LimbBase - 1, LimbBase - 1>>
InUint32(t) == t[1] >= 0 /\ t[1] < LimbBase

\* What the builds make of a float-to-uint32 conversion whose truncated value
\* uint32 cannot hold, which C leaves undefined: the low 32 bits of the
\* 64-bit conversion, or the nearest end of the range.
Builds == {"wrap", "saturate"}

\* generate_darks.py:293, astype(np.uint32) of one float32 value
AsUint32(v, build) ==
    LET t == TruncToInt(v)
    IN IF InUint32(t) THEN t
       ELSE IF build = "wrap" THEN <<t[1] % LimbBase, t[2]>>
       ELSE IF NIsNeg(t) THEN <<0, 0>> ELSE Uint32Max

\* Pixel values offered, in half-ADU: -1.5, 0, 1.5, 2^24 + 1 and 2^32 ADU.
PedCubeValues == {NOfInt(-3), NOfInt(0), NOfInt(3), NOfInt(2^25 + 2), <<2^17, 0>>}
PedestalValues == {NOfInt(-2), NOfInt(0), NOfInt(2)}
PedOffsets == {500, 501}
PedShapes == {<<1, 1>>, <<1, 2>>}

\* generate_darks.py:284
Ped1(pedestal, offset) ==
    [p \in DOMAIN pedestal |-> NAdd(pedestal[p], NOfInt(2 * (offset - 500)))]

PedEntry(cube, dims, pedestal, offset) ==
    [pc |-> "entry", cube |-> cube, pedestal |-> pedestal, offset |-> offset,
     dims |-> dims,
     arg_cube |-> cube,      \* the ramp as the caller handed it over
     ped1 |-> <<>>, newcube |-> <<>>, n |-> 0, build |-> "", result |-> <<>>, error |-> ""]

\* generate_darks.py:284-288
PED_Setup ==
    /\ ped.pc = "entry"
    /\ ped' = [ped EXCEPT
            !.pc = "loop",
            !.ped1 = Ped1(ped.pedestal, ped.offset),
            !.newcube = [n \in DOMAIN ped.cube |->
                           [p \in DOMAIN ped.cube[n] |-> ToFloat32N(NOfInt(0))]],
            !.n = 0]
    /\ UNCHANGED <<gft, tso, mex, sig, nlin, llc, sim>>

\* generate_darks.py:291-292: one frame
PED_Frame ==
    /\ ped.pc = "loop"
    /\ ped.n < ped.dims[1]
    /\ LET slot == <<ped.dims[2], ped.dims[3]>>
           ped_shape == ImgShape(ped.ped1)
       IN IF ~Compatible(slot, ped_shape) \/ ~Storable(BShape(slot, ped_shape), slot)
          THEN \* line 292: the sum does not broadcast, or not into the slice
               ped' = [ped EXCEPT !.pc = "raised", !.error = "ValueError"]
          ELSE ped' = [ped EXCEPT
                  !.newcube[ped.n + 1] =
                      [p \in Pix(slot) |->
                          ToFloat32N(NAdd(ped.cube[ped.n + 1][p], At(ped.ped1, p)))],
                  !.n = ped.n + 1]
    /\ UNCHANGED <<gft, tso, mex, sig, nlin, llc, sim>>

\* generate_darks.py:293-295
PED_Cast ==
    /\ ped.pc = "loop"
    /\ ped.n >= ped.dims[1]
    /\ \E build \in Builds :
         ped' = [ped EXCEPT
            !.pc = "returned",
            !.build = build,
            !.result = [n \in DOMAIN ped.newcube |->
                          [p \in DOMAIN ped.newcube[n] |-> AsUint32(ped.newcube[n][p], build)]]]
    /\ UNCHANGED <<gft, tso, mex, sig, nlin, llc, sim>>

InitPedestal ==
    /\ \E nframes \in 0..MaxFrames, shape \in PedShapes, ped_shape \in PedShapes,
          offset \in PedOffsets :
       \E levels \in [1..nframes -> PedCubeValues],
          pedestal \in [Pix(ped_shape) -> PedestalValues] :
          ped = PedEntry([n \in 1..nframes |-> Full(shape, levels[n])],
                         <<nframes, shape[1], shape[2]>>, pedestal, offset)
    /\ gft = Idle
    /\ tso = Idle
    /\ mex = Idle
    /\ sig = Idle
    /\ nlin = Idle
    /\ llc = Idle
    /\ sim = Idle

NextPedestal ==
    \/ PED_Setup
    \/ PED_Frame
    \/ PED_Cast

SpecPedestal == InitPedestal /\ [][NextPedestal]_vars

----------------------------------------------------------------------------
(* lambda_lightcurve, awesim.py:556-644                                     *)
(* Fluxes and counts are whole numbers of Count^-1 counts (micro-counts),   *)
(* so that every product and quotient below is exact.  The transit model    *)
(* (batman) and psf_position are reduced to what the function takes from    *)
(* them: a light curve that depends on the parameters it is evaluated with, *)
(* and a weight.                                                            *)

MaxTimes == 2

Count == 10^6

\* The standard-normal values a draw can take.
NormalZ == {-3, 0, 1}

Wavelengths == {1, 2, 3, 5}
Responses == {1, 2}
Distances == {0, 50, 51}
TraceRadii == {25}
Extends == {0, 25}
Floors == {2 * Count}
SNRs == {100}

\* star = (wavelength, flux): a spectrum over the wavelengths 2..4, and one
\* whose fluxes are negative.
Stars ==
    {[wave |-> <<2, 4>>, flux |-> <<400 * Count, 800 * Count>>],
     [wave |-> <<2, 4>>, flux |-> <<-100 * Count, -100 * Count>>]}

\* planet = '' (no planet), or (wavelength, (Rp/R*)^2).
NoPlanet == [kind |-> "str"]
Planets == {NoPlanet, [kind |-> "spectrum", wave |-> <<2, 3, 4>>, depth |-> <<1, 4, 9>>]}

\* params = '' (the default of TSO), or a batman.TransitParams.
NoParams == [kind |-> "str"]
TransitParams(limb_dark, u, rp) ==
    [kind |-> "TransitParams", limb_dark |-> limb_dark, u |-> u, rp |-> rp]
ParamsArgs == {NoParams, TransitParams("uniform", <<>>, 0)}

LdCoeffs == {<<1, 2>>}
LdProfiles == {"quadratic"}

MinOf(seq) == CHOOSE m \in Range(seq) : \A x \in Range(seq) : m <= x

\* np.interp(x, xp, fp, left, right) for increasing xp
Interp(x, xp, fp, left, right) ==
    IF x < xp[1] THEN left
    ELSE IF x > xp[Len(xp)] THEN right
    ELSE IF x = xp[Len(xp)] THEN fp[Len(xp)]
    ELSE LET i == CHOOSE j \in 1..(Len(xp) - 1) : xp[j] <= x /\ x < xp[j + 1]
         IN fp[i] + ((fp[i + 1] - fp[i]) * (x - xp[i])) \div (xp[i + 1] - xp[i])

\* np.sqrt on the depths offered, which are squares
Sqrt(x) == CHOOSE r \in 0..x : r * r = x

\* v times the fraction f = <<numerator, denominator>>
Scale(v, f) == (v \div f[2]) * f[1]

\* np.random.normal(loc, scale, size): loc + scale * z at every place, z
\* standard normal and taken from zs
NormalDraws(loc, scale, size, zs) ==
    {[i \in 1..size |-> loc + scale * z[i]] : z \in [1..size -> zs]}

\* The mutant of IsBackground: the wavelength is not looked at.
IsBackground_DistanceOnly(distance, trace_radius, extend, wavelength, star) ==
    distance > trace_radius + extend

\* awesim.py:598-599
IsBackground(distance, trace_radius, extend, wavelength, star) ==
    distance > trace_radius + extend \/ wavelength < MinOf(star.wave)

\* The mutant of BackgroundFlux: the draws as they come.
BackgroundFlux_Signed(draws) == draws

\* awesim.py:601, np.abs of the draws
BackgroundFlux(draws) == [i \in DOMAIN draws |-> Abs(draws[i])]

\* awesim.py:619-620
PlanetRadius(wavelength, planet) ==
    Sqrt(Interp(wavelength, planet.wave, planet.depth, planet.depth[1],
                planet.depth[Len(planet.depth)]))

\* awesim.py:623-624, batman: the light curve of the parameters handed over,
\* here 1 - rp^2 per cent at every time
TransitLightCurve(params, time) == [i \in DOMAIN time |-> <<100 - params.rp * params.rp, 100>>]

\* awesim.py:633, psf_position(distance, extend): a weight read off the
\* table of lines 509-524, which the random wings of add_wings rescale when
\* extend is not 0
PsfWeights(distance, extend) ==
    IF extend = 0 THEN {<<1, 100>>} ELSE {<<1, 100>>, <<1, 1000>>}

\* The places of flux below the floor, in order: flux[flux<floor]
BelowFloor(flux, floor) == {i \in DOMAIN flux : flux[i] < floor}
RankIn(i, set) == Cardinality({j \in set : j <= i})

\* The mutant of AddFloorNoise: the draws take the place of the values.
AddFloorNoise_Replace(flux, floor, draws) ==
    [i \in DOMAIN flux |->
        IF flux[i] < floor THEN draws[RankIn(i, BelowFloor(flux, floor))] ELSE flux[i]]

\* awesim.py:636, flux[flux<floor] += draws
AddFloorNoise(flux, floor, draws) ==
    [i \in DOMAIN flux |->
        IF flux[i] < floor THEN flux[i] + draws[RankIn(i, BelowFloor(flux, floor))]
        ELSE flux[i]]

LlcEntry(wavelength, response, distance, ld_coeffs, ld_profile, star, planet, time, params, trace_radius, SNR, floor, extend) ==
    [pc |-> "entry", wavelength |-> wavelength, response |-> response,
     distance |-> distance, ld_coeffs |-> ld_coeffs, ld_profile |-> ld_profile,
     star |-> star, planet |-> planet, time |-> time, params |-> params,
     trace_radius |-> trace_radius, SNR |-> SNR, floor |-> floor, extend |-> extend,
     arg_params |-> params,  \* the parameter object as the caller handed it over
     reads |-> {},           \* the arguments and models consulted so far
     flux0 |-> 0, flux |-> <<>>,
     noise |-> <<>>,         \* the draws of line 601 or 609
     model_params |-> NoParams,   \* what batman.TransitModel was built with
     scaled |-> <<>>,        \* flux as it reaches line 636
     floor_noise |-> <<>>,   \* the draws of line 636
     error |-> ""]

\* awesim.py:598-609: a background pixel is noise and returns (line 644);
\* any other gets the stellar flux with its noise
LLC_Branch ==
    /\ llc.pc = "entry"
    /\ LET far == llc.distance > llc.trace_radius + llc.extend
           seen == {"distance", "trace_radius", "extend"}
                   \cup (IF far THEN {} ELSE {"wavelength", "star_wave"})
       IN IF IsBackground(llc.distance, llc.trace_radius, llc.extend, llc.wavelength, llc.star)
          THEN \E draws \in NormalDraws(llc.floor, Count, Len(llc.time), NormalZ) :
                 llc' = [llc EXCEPT !.pc = "returned",
                                    !.noise = draws,
                                    !.flux = BackgroundFlux(draws),
                                    !.reads = seen \cup {"floor", "time"}]
          ELSE LET flux0 == Interp(llc.wavelength, llc.star.wave, llc.star.flux, 0, 0)
                   scale == flux0 \div llc.SNR
               IN IF scale < 0
                  THEN \* np.random.normal: scale < 0
                       llc' = [llc EXCEPT !.pc = "raised", !.error = "ValueError",
                                          !.flux0 = flux0,
                                          !.reads = seen \cup {"star_flux", "SNR", "time"}]
                  ELSE \E draws \in NormalDraws(flux0, scale, Len(llc.time), NormalZ) :
                         llc' = [llc EXCEPT !.pc = "transit",
                                            !.flux0 = flux0,
                                            !.noise = draws,
                                            !.flux = [i \in DOMAIN draws |-> Abs(draws[i])],
                                            !.reads = seen \cup {"star_flux", "SNR", "time"}]
    /\ UNCHANGED <<gft, tso, mex, sig, nlin, ped, sim>>

\* awesim.py:612-627: with a planet, the parameters of this wavelength are
\* set on params and the flux is scaled with the light curve
LLC_Transit ==
    /\ llc.pc = "transit"
    /\ IF llc.planet.kind = "str"
       THEN llc' = [llc EXCEPT !.pc = "counts", !.reads = @ \cup {"planet"}]
       ELSE IF llc.params.kind = "str"
       THEN \* line 615: 'str' object has no attribute 'limb_dark'
            llc' = [llc EXCEPT !.pc = "raised", !.error = "AttributeError",
                               !.reads = @ \cup {"planet", "params"}]
       ELSE LET set == TransitParams(llc.ld_profile, llc.ld_coeffs,
                                     PlanetRadius(llc.wavelength, llc.planet))
                lightcurve == TransitLightCurve(set, llc.time)
            IN llc' = [llc EXCEPT
                   !.pc = "counts",
                   !.params = set,
                   !.model_params = set,
                   !.flux = [i \in DOMAIN llc.flux |-> Scale(llc.flux[i], lightcurve[i])],
                   !.reads = @ \cup {"planet", "params", "ld_coeffs", "ld_profile", "transit"}]
    /\ UNCHANGED <<gft, tso, mex, sig, nlin, ped, sim>>

\* awesim.py:630-644: counts, the weight of the PSF, the noise floor, return
LLC_Counts ==
    /\ llc.pc = "counts"
    /\ \E weight \in PsfWeights(llc.distance, llc.extend) :
         LET scaled == [i \in DOMAIN llc.flux |->
                           Scale(llc.flux[i] \div llc.response, weight)]
         IN \E draws \in NormalDraws(llc.floor, Count,
                                     Cardinality(BelowFloor(scaled, llc.floor)), NormalZ) :
              llc' = [llc EXCEPT !.pc = "returned",
                                 !.scaled = scaled,
                                 !.floor_noise = draws,
                                 !.flux = AddFloorNoise(scaled, llc.floor, draws),
                                 !.reads = @ \cup {"response", "psf", "floor"}]
    /\ UNCHANGED <<gft, tso, mex, sig, nlin, ped, sim>>

InitLightcurve ==
    /\ \E wavelength \in Wavelengths, response \in Responses, distance \in Distances,
          ld_coeffs \in LdCoeffs, ld_profile \in LdProfiles, star \in Stars,
          planet \in Planets, ntimes \in 0..MaxTimes, params \in ParamsArgs,
          trace_radius \in TraceRadii, SNR \in SNRs, floor \in Floors, extend \in Extends :
          llc = LlcEntry(wavelength, response, distance, ld_coeffs, ld_profile, star,
                         planet, [i \in 1..ntimes |-> 5491 * (i - 1)], params,
                         trace_radius, SNR, floor, extend)
    /\ gft = Idle
    /\ tso = Idle
    /\ mex = Idle
    /\ sig = Idle
    /\ nlin = Idle
    /\ ped = Idle
    /\ sim = Idle

NextLightcurve ==
    \/ LLC_Branch
    \/ LLC_Transit
    \/ LLC_Counts

SpecLightcurve == InitLightcurve /\ [][NextLightcurve]_vars

----------------------------------------------------------------------------
(* TSO.run_simulation, awesim.py:796-864                                    *)
(* The detector is cut down to SimShape pixels; the wavelength, distance    *)
(* and response tables stand for the files the code loads.  The pool is     *)
(* multiprocessing.Pool: every task is pickled with its own copy of func    *)
(* (and so of params), a worker runs one task at a time, and the result of  *)
(* task i is put at place i of the list starmap returns.                    *)

Processes == 8

SimShape == <<2, 2>>
SimPixels == SimShape[1] * SimShape[2]

\* self.wave, one flattened map per order, and distance_map(order).flatten()
WaveMaps == <<<<2, 3, 4, 1>>, <<4, 2, 3, 5>>, <<1, 1, 1, 1>>>>
DistanceMaps == <<<<0, 0, 80, 0>>, <<0, 80, 0, 0>>>>

\* awesim.py:831
dragons == <<1, 50>>

\* ADUtoFlux(order): wavelengths and the response at each
ADUtoFlux(order) ==
    [wave |-> <<1, 2, 3, 4, 5>>,
     response |-> [i \in 1..5 |-> <<1, 1, 2, 2, 1>>[i] * dragons[order]]]

\* awesim.py:833
LocalResponse(local_wave, order) ==
    LET local_scaling == ADUtoFlux(order)
        n == Len(local_scaling.wave)
    IN [i \in DOMAIN local_wave |->
           Interp(local_wave[i], local_scaling.wave, local_scaling.response,
                  local_scaling.response[1], local_scaling.response[n]) \div dragons[order]]

\* ld_coeffs as handed to TSO: '' (the default), one entry per pixel, or an
\* array one entry short.
NoLd == [kind |-> "str"]
LdArray(n) == [kind |-> "array", rows |-> [i \in 1..n |-> <<i, i + 1>>]]
LdArgs == {NoLd, LdArray(SimPixels), LdArray(SimPixels - 1)}

\* orders as handed to run_simulation: an int or a list
OrdersArgs ==
    {[kind |-> "int", value |-> <<2>>]}
    \cup {[kind |-> "list", value |-> v] : v \in {<< >>, <<1>>, <<2, 1>>, <<1, 3>>}}

\* awesim.py:815, list(set(orders)) of orders that are all 1 or 2
UniqueOrders(orders) ==
    (IF 1 \in Range(orders) THEN <<1>> ELSE << >>) \o (IF 2 \in Range(orders) THEN <<2>> ELSE << >>)

MinLen(a, b, c, e) ==
    CHOOSE m \in {Len(a), Len(b), Len(c), Len(e)} :
        \A x \in {Len(a), Len(b), Len(c), Len(e)} : m <= x

\* The mutant of ParamsOwner: every worker works on the caller's object.
ParamsOwner_Shared(w) == 0

\* awesim.py:839-851: the params a worker mutates is the copy unpickled with
\* its task, in its own process; place 0 is the caller's self.params
ParamsOwner(w) == w

\* The mutant of ResultPlace: results placed in the order they arrive.
ResultPlace_Arrival(task, arrived) == arrived + 1

\* awesim.py:851, starmap: the result of task i is element i of the list
ResultPlace(task, arrived) == task

\* The mutant of PixelIndex: the flat index taken column by column.
PixelIndex_ColumnMajor(r, c, nrows, ncols) == (c - 1) * nrows + r

\* awesim.py:857, swapaxes(0,1).reshape([nframes, nrows, ncols]): the pixel
\* of row r, column c (from 1) is light curve (r-1)*ncols + c
PixelIndex(r, c, nrows, ncols) == (r - 1) * ncols + c

\* awesim.py:857
Reshape(lightcurves, nframes, nrows, ncols) ==
    [f \in 1..nframes |->
        [p \in Pix(<<nrows, ncols>>) |-> lightcurves[PixelIndex(p[1], p[2], nrows, ncols)][f]]]

NoResult == [inputs |-> <<>>, flux |-> <<>>, model_params |-> NoParams]
IdleWorker == [pc |-> "idle", task |-> 0, flux |-> <<>>]

\* The arguments zip hands to task i.
TaskInputs(i) ==
    [wavelength |-> sim.local_wave[i], response |-> sim.local_response[i],
     distance |-> sim.local_distance[i], ld_coeffs |-> sim.local_ld_coeffs[i]]

SimEntry(subarray, time, star, planet, params, ld_coeffs, ld_profile, trace_radius, SNR, extend, orders, z) ==
    [pc |-> "entry",
     \* self
     subarray |-> subarray, nrows |-> SimShape[1], ncols |-> SimShape[2],
     time |-> time, nframes |-> Len(time), star |-> star, planet |-> planet,
     ld_coeffs |-> ld_coeffs, ld_profile |-> ld_profile, trace_radius |-> trace_radius,
     SNR |-> SNR, extend |-> extend, wave |-> WaveMaps,
     tso |-> [f \in 1..Len(time) |-> Full(SimShape, 0)],
     \* place 0: self.params; place w: the copy worker w holds
     params |-> [w \in 0..Processes |-> params],
     arg_params |-> params,
     \* the argument and the locals
     orders |-> orders, pending |-> << >>, order |-> 0,
     local_ld_coeffs |-> << >>, local_wave |-> << >>, local_distance |-> << >>,
     local_response |-> << >>,
     \* the pool
     ntasks |-> 0, next |-> 1,
     workers |-> [w \in 1..Processes |-> IdleWorker],
     lightcurves |-> << >>,
     arrived |-> << >>,      \* the tasks in the order their results arrived
     computed |-> << >>,     \* per task: what it was called with and returned
     failed |-> {},          \* the <<order, task>> whose evaluation raised
     cubes |-> << >>,        \* the cubes of the orders added to self.tso so far
     worker_error |-> "",
     tso_order |-> << >>,
     z |-> z,                \* the standard-normal value of this run's draws
     error |-> ""]

\* awesim.py:805-815
SIM_Setup ==
    /\ sim.pc = "entry"
    /\ LET ld == IF sim.planet.kind = "str"
                 THEN [kind |-> "array",
                       rows |-> [i \in 1..(sim.nrows * sim.ncols) |-> <<0, 0>>]]
                 ELSE sim.ld_coeffs
       IN IF ld.kind = "str"
          THEN \* line 808: 'str' object has no attribute 'copy'
               sim' = [sim EXCEPT !.pc = "raised", !.error = "AttributeError"]
          ELSE IF \E o \in Range(sim.orders.value) : o \notin {1, 2}
          THEN sim' = [sim EXCEPT !.pc = "raised", !.error = "TypeError",
                                  !.ld_coeffs = ld, !.local_ld_coeffs = ld.rows]
          ELSE sim' = [sim EXCEPT !.pc = "order",
                                  !.ld_coeffs = ld,
                                  !.local_ld_coeffs = ld.rows,
                                  !.pending = UniqueOrders(sim.orders.value)]
    /\ UNCHANGED <<gft, tso, mex, sig, nlin, ped, llc>>

\* awesim.py:818-851: the maps of the order, the pool, the tasks handed in
SIM_StartOrder ==
    /\ sim.pc = "order"
    /\ sim.pending # << >>
    /\ LET order == Head(sim.pending)
           local_wave == sim.wave[order]
           local_distance == DistanceMaps[order]
           local_response == LocalResponse(local_wave, order)
           ntasks == MinLen(local_wave, local_response, local_distance, sim.local_ld_coeffs)
       IN sim' = [sim EXCEPT !.pc = "pool",
                             !.order = order,
                             !.local_wave = local_wave,
                             !.local_distance = local_distance,
                             !.local_response = local_response,
                             !.ntasks = ntasks,
                             !.next = 1,
                             !.workers = [w \in 1..Processes |-> IdleWorker],
                             !.lightcurves = [i \in 1..ntasks |-> << >>],
                             !.arrived = << >>,
                             !.computed = [i \in 1..ntasks |-> NoResult],
                             !.tso_order = << >>]
    /\ UNCHANGED <<gft, tso, mex, sig, nlin, ped, llc>>

\* The workers are alike; the free one of lowest number takes the task.
FreeWorker ==
    CHOOSE w \in 1..Processes :
        /\ sim.workers[w].pc = "idle"
        /\ \A v \in 1..(w - 1) : sim.workers[v].pc # "idle"

\* A worker takes the next task off the queue and unpickles func with it.
W_Take(w) ==
    /\ sim.pc = "pool"
    /\ sim.next <= sim.ntasks
    /\ \E v \in 1..Processes : sim.workers[v].pc = "idle"
    /\ w = FreeWorker
    /\ sim' = [sim EXCEPT !.workers[w] = [pc |-> "pixel", task |-> sim.next, flux |-> << >>],
                          !.params[ParamsOwner(w)] = sim.params[0],
                          !.next = sim.next + 1]
    /\ UNCHANGED <<gft, tso, mex, sig, nlin, ped, llc>>

\* The result of a task reaches the list of starmap.
Deliver(w, i, flux, model_params) ==
    [sim EXCEPT !.workers[w] = IdleWorker,
                !.lightcurves[ResultPlace(i, Len(sim.arrived))] = flux,
                !.arrived = Append(@, i),
                !.computed[i] = [inputs |-> TaskInputs(i), flux |-> flux,
                                 model_params |-> model_params]]

\* The mutant of Failed: the pixel that raised is given zeros and the pool
\* goes on.
Failed_Defaulted(w, i, err) ==
    [Deliver(w, i, [f \in 1..sim.nframes |-> 0], NoParams) EXCEPT
        !.failed = @ \cup {<<sim.order, i>>}]

\* An exception raised in a worker, awesim.py:851: the pool keeps the first
\* and starmap raises it in the caller; the task returns nothing.
Failed(w, i, err) ==
    [sim EXCEPT !.workers[w] = IdleWorker,
                !.failed = @ \cup {<<sim.order, i>>},
                !.worker_error = IF @ = "" THEN err ELSE @]

\* lambda_lightcurve in a worker, awesim.py:598-620 (floor is left at its
\* default, 2): a background pixel is done; any other has its flux drawn
\* and, with a planet, the parameters of its wavelength set on params
W_Pixel(w) ==
    /\ sim.pc = "pool"
    /\ sim.workers[w].pc = "pixel"
    /\ LET i == sim.workers[w].task
           in == TaskInputs(i)
           floor == 2 * Count
       IN IF IsBackground(in.distance, sim.trace_radius, sim.extend, in.wavelength, sim.star)
          THEN \E draws \in NormalDraws(floor, Count, sim.nframes, {sim.z}) :
                 sim' = Deliver(w, i, BackgroundFlux(draws), NoParams)
          ELSE LET flux0 == Interp(in.wavelength, sim.star.wave, sim.star.flux, 0, 0)
                   scale == flux0 \div sim.SNR
               IN IF scale < 0
                  THEN \* line 609: np.random.normal, scale < 0
                       sim' = Failed(w, i, "ValueError")
                  ELSE \E draws \in NormalDraws(flux0, scale, sim.nframes, {sim.z}) :
                       LET flux == [f \in DOMAIN draws |-> Abs(draws[f])]
                       IN IF sim.planet.kind = "str"
                          THEN sim' = [sim EXCEPT !.workers[w].pc = "model",
                                                  !.workers[w].flux = flux]
                          ELSE IF sim.params[ParamsOwner(w)].kind = "str"
                          THEN \* line 615: a str has no attribute limb_dark
                               sim' = Failed(w, i, "AttributeError")
                          ELSE sim' = [sim EXCEPT
                                 !.workers[w].pc = "model",
                                 !.workers[w].flux = flux,
                                 !.params[ParamsOwner(w)] =
                                     TransitParams(sim.ld_profile, in.ld_coeffs,
                                                   PlanetRadius(in.wavelength, sim.planet))]
    /\ UNCHANGED <<gft, tso, mex, sig, nlin, ped, llc>>

\* lambda_lightcurve in a worker, awesim.py:623-644: the transit model of
\* params as it is now, counts, PSF weight, noise floor, return
W_Model(w) ==
    /\ sim.pc = "pool"
    /\ sim.workers[w].pc = "model"
    /\ LET i == sim.workers[w].task
           in == TaskInputs(i)
           floor == 2 * Count
           mine == sim.params[ParamsOwner(w)]
           flux == IF sim.planet.kind = "str" THEN sim.workers[w].flux
                   ELSE [f \in DOMAIN sim.workers[w].flux |->
                            Scale(sim.workers[w].flux[f], TransitLightCurve(mine, sim.time)[f])]
       IN \E weight \in PsfWeights(in.distance, sim.extend) :
            LET scaled == [f \in DOMAIN flux |-> Scale(flux[f] \div in.response, weight)]
            IN \E draws \in NormalDraws(floor, Count,
                                        Cardinality(BelowFloor(scaled, floor)), {sim.z}) :
                 sim' = Deliver(w, i, AddFloorNoise(scaled, floor, draws),
                                IF sim.planet.kind = "str" THEN NoParams ELSE mine)
    /\ UNCHANGED <<gft, tso, mex, sig, nlin, ped, llc>>

\* awesim.py:851-861: starmap returns (or raises what a worker raised), the
\* list is reshaped into the cube of the order and added to self.tso
SIM_Collect ==
    /\ sim.pc = "pool"
    /\ IF sim.worker_error # ""
       THEN sim' = [sim EXCEPT !.pc = "raised", !.error = sim.worker_error]
       ELSE /\ Len(sim.arrived) = sim.ntasks
            /\ IF sim.ntasks # sim.nrows * sim.ncols
               THEN \* line 857: cannot reshape array
                    sim' = [sim EXCEPT !.pc = "raised", !.error = "ValueError"]
               ELSE LET tso_order == Reshape(sim.lightcurves, sim.nframes, sim.nrows, sim.ncols)
                    IN sim' = [sim EXCEPT
                           !.pc = IF Tail(sim.pending) = << >> THEN "darks" ELSE "order",
                           !.pending = Tail(sim.pending),
                           !.tso_order = tso_order,
                           !.cubes = Append(@, [order |-> sim.order, cube |-> tso_order]),
                           !.tso = [f \in DOMAIN sim.tso |->
                                      [p \in DOMAIN sim.tso[f] |->
                                          Abs(sim.tso[f][p] + tso_order[f][p])]]]
    /\ UNCHANGED <<gft, tso, mex, sig, nlin, ped, llc>>

\* awesim.py:864 (and 716-721): dark_ramps is zeros of 256 rows whatever the
\* subarray
SIM_AddDarks ==
    /\ \/ sim.pc = "darks"
       \/ sim.pc = "order" /\ sim.pending = << >>
    /\ IF tso_nrows(sim.subarray) # 256
       THEN \* operands could not be broadcast together
            sim' = [sim EXCEPT !.pc = "raised", !.error = "ValueError"]
       ELSE sim' = [sim EXCEPT !.pc = "returned"]
    /\ UNCHANGED <<gft, tso, mex, sig, nlin, ped, llc>>

SimTimes == {<<0>>, <<0, 5491>>}

\* self.star: a spectrum positive on the wavelengths of both orders, and one
\* that is negative at the longest wavelength of order 2 only.
SimStars ==
    {[wave |-> <<2, 4>>, flux |-> <<400 * Count, 800 * Count>>],
     [wave |-> <<2, 4, 6>>, flux |-> <<400 * Count, 800 * Count, -1000 * Count>>]}

InitSimulation ==
    /\ \E subarray \in {"SUBSTRIP256", "SUBSTRIP96"}, time \in SimTimes,
          planet \in Planets, params \in ParamsArgs, ld_coeffs \in LdArgs,
          orders \in OrdersArgs, z \in NormalZ, star \in SimStars :
          sim = SimEntry(subarray, time, star,
                         planet, params, ld_coeffs, "quadratic", 50, 100, 25, orders, z)
    /\ gft = Idle
    /\ tso = Idle
    /\ mex = Idle
    /\ sig = Idle
    /\ nlin = Idle
    /\ ped = Idle
    /\ llc = Idle

NextSimulation ==
    \/ SIM_Setup
    \/ SIM_StartOrder
    \/ \E w \in 1..Processes : W_Take(w)
    \/ \E w \in 1..Processes : W_Pixel(w)
    \/ \E w \in 1..Processes : W_Model(w)
    \/ SIM_Collect
    \/ SIM_AddDarks

SpecSimulation == InitSimulation /\ [][NextSimulation]_vars

----------------------------------------------------------------------------
(* Claims about the time axis, checked under SpecFrameTimes                 *)

\* C1: for nints >= 1, ngrps >= 1, nresets >= 0 and any start time,
\* get_frame_times does not raise and returns exactly nints * ngrps times;
\* each integration contributes its ngrps group times, and its nresets reset
\* times are generated (they advance the clock) but are not in the output:
\* the first time returned is t0 + nresets * ft.
C1_TimeAxisLength ==
    (gft.pc \in {"loop", "returned", "raised"} /\ gft.nints >= 1 /\ gft.ngrps >= 1) =>
        /\ gft.pc # "raised"
        /\ \A i \in DOMAIN gft.time_axis : Len(gft.time_axis[i]) = gft.ngrps
        /\ gft.pc = "returned" =>
              /\ Len(gft.result) = gft.nints * gft.ngrps
              /\ gft.result[1] = gft.t0 + gft.nresets * gft.ft

C1_Witness ==
    /\ gft.pc = "returned"
    /\ gft.nints = 3 /\ gft.ngrps = 2 /\ gft.nresets = 1
    /\ gft.arg_subarray = "SUBSTRIP256" /\ gft.t0 = 0
    /\ Len(gft.result) = 6

\* The frame time the claim names for each subarray, in milliseconds; an
\* unsupported name is timed as SUBSTRIP256.
C2_FrameTime(name) ==
    CASE name = "SUBSTRIP256" -> 5491
      [] name = "SUBSTRIP96" -> 2213
      [] name = "FULL" -> 10737
      [] OTHER -> 5491

\* C2: in the returned axis the k-th kept frame of integration i+1 is
\* (nresets + ngrps) * ft after the k-th kept frame of integration i,
\* consecutive frames of one integration are ft apart, and the axis is
\* strictly increasing; ft is 5.491 s, 2.213 s or 10.737 s by subarray.
C2_TimeAxisSpacing ==
    (gft.pc = "returned" /\ gft.nints >= 1 /\ gft.ngrps >= 1) =>
        LET r == gft.result
            ft == C2_FrameTime(gft.arg_subarray)
        IN /\ \A j \in DOMAIN r :
                 (j + gft.ngrps \in DOMAIN r) =>
                     r[j + gft.ngrps] - r[j] = (gft.nresets + gft.ngrps) * ft
           /\ \A j \in DOMAIN r :
                 (j + 1 \in DOMAIN r /\ j % gft.ngrps # 0) => r[j + 1] - r[j] = ft
           /\ \A j \in DOMAIN r : (j + 1 \in DOMAIN r) => r[j] < r[j + 1]

C2_Witness ==
    /\ gft.pc = "returned"
    /\ gft.nints = 2 /\ gft.ngrps = 2 /\ gft.nresets = 2
    /\ gft.arg_subarray = "SUBSTRIP96" /\ gft.t0 = 250
    /\ gft.result = <<250 + 2 * 2213, 250 + 3 * 2213, 250 + 6 * 2213, 250 + 7 * 2213>>

\* C9: a request for an unsupported subarray is rejected: get_frame_times
\* does not go on to build a time axis for it under a substituted name and
\* frame time, and no TSO is constructed for it with a default row count.
C9_UnsupportedRejected ==
    /\ (gft.pc # "idle" /\ gft.arg_subarray \notin SupportedSubarrays) =>
          /\ gft.pc \in {"entry", "raised"}
          /\ gft.subarray = gft.arg_subarray
    /\ (tso.pc # "idle" /\ tso.subarray \notin SupportedSubarrays) =>
          tso.pc # "returned"

\* C15: with nints = 0 or ngrps = 0, get_frame_times does not raise and
\* returns an empty time axis, and so a TSO can be constructed for such a
\* request.
C15_DegenerateNotError ==
    /\ (gft.pc # "idle" /\ (gft.nints = 0 \/ gft.ngrps = 0)) =>
          /\ gft.pc # "raised"
          /\ gft.pc = "returned" => gft.result = <<>>
    /\ (tso.pc # "idle" /\ (tso.nints = 0 \/ tso.ngrps = 0)) =>
          /\ tso.pc # "raised"
          /\ tso.pc = "returned" => tso.nframes = 0

----------------------------------------------------------------------------
(* Claims about the dark ramp, checked under SpecExposure                   *)

\* C3: when nints < 1 or ngrps < 1, make_exposure returns None: it does not
\* raise, constructs and calls no noise generator, seeds nothing and draws
\* nothing (neither a seed nor dark current).
C3_NoOpReturnsNone ==
    (mex.pc # "idle" /\ (mex.nints < 1 \/ mex.ngrps < 1)) =>
        /\ mex.pc \in {"entry", "returned"}
        /\ mex.pc = "returned" => mex.result = "None"
        /\ mex.noisecube = <<>>
        /\ mex.mknoise_calls = <<>>
        /\ mex.seed_calls = <<>>
        /\ mex.uniform_calls = 0
        /\ mex.dark_added = <<>>
        /\ mex.streams = <<>>

C3_Witness ==
    /\ mex.pc = "returned" /\ mex.result = "None"
    /\ mex.nints = 0 /\ mex.ngrps = 2
    /\ mex.run = 1

\* C10: with explicit integer seeds (0 included) make_exposure hands
\* noise_seed + 24*i to the noise generator in integration i, seeds the
\* dark-current sampler with dark_seed once per integration (after seeding
\* it once at the start), and a second run with the same arguments hands
\* out the same seeds as the first.
C10_SeedsReproducible ==
    (mex.pc # "idle" /\ mex.arg_noise_seed # <<>> /\ mex.arg_dark_seed # <<>>) =>
        /\ \A i \in DOMAIN mex.mknoise_calls :
               /\ mex.mknoise_calls[i].noise_seed = Head(mex.arg_noise_seed) + 24 * (i - 1)
               /\ mex.mknoise_calls[i].dc_seed = Head(mex.arg_dark_seed)
        /\ \A i \in DOMAIN mex.seed_calls : mex.seed_calls[i] = Head(mex.arg_dark_seed)
        /\ (mex.pc = "loop" \/ mex.result = "simulated_data") =>
               /\ Len(mex.seed_calls) = 1 + Len(mex.mknoise_calls)
               /\ Len(mex.mknoise_calls) = mex.loop
        /\ (mex.run = 2 /\ mex.pc \in {"returned", "raised"}) =>
               SeedTrace(mex) = Head(mex.first)

RECURSIVE C23_Sum(_, _, _)
\* The electrons drawn for pixel p in the first n groups of a stream.
C23_Sum(draws, n, p) == IF n = 0 THEN 0 ELSE C23_Sum(draws, n - 1, p) + draws[n][p]

\* C23: the dark current added to group n of an integration is the sum of
\* the Poisson draws of the groups up to n of that integration, each divided
\* by gain: the first group of every integration gets its own draw alone,
\* and within an integration the amount never decreases.
C23_RunningSum ==
    \A i \in DOMAIN mex.dark_added :
        LET draws == StreamOf(mex.streams, mex.dc_seed)
            added == mex.dark_added[i]
        IN /\ Len(added) = mex.ngrps
           /\ \A n \in 1..mex.ngrps : \A p \in DOMAIN mex.darksignal :
                 /\ added[n][p] * mex.gain = 2 * C23_Sum(draws, n, p)
                 /\ n = 1 => added[n][p] * mex.gain = 2 * draws[1][p]
                 /\ n > 1 => added[n][p] >= added[n - 1][p]

\* Two integrations of two groups are done, and in each the dark current
\* has grown from the first group to the second.
C23_Witness ==
    /\ mex.pc = "returned" /\ mex.result = "simulated_data"
    /\ mex.nints = 2 /\ mex.ngrps = 2 /\ mex.gain = 2
    /\ Len(mex.dark_added) = 2
    /\ \A i \in 1..2 : \E p \in DOMAIN mex.darksignal :
          /\ mex.dark_added[i][1][p] > 0
          /\ mex.dark_added[i][2][p] > mex.dark_added[i][1][p]

----------------------------------------------------------------------------
(* Claims about the compositor, checked under SpecSignal                    *)

NonDecreasing(c) ==
    \A n \in DOMAIN c : (n + 1 \in DOMAIN c) => \A p \in DOMAIN c[n] : c[n][p] <= c[n + 1][p]

\* C4: when the signal cube and the dark ramp differ in shape, add_signal
\* ends in a fatal error (ValueError) before it has drawn any sample, and
\* no output cube exists.
C4_ShapeMismatchFatal ==
    (sig.pc # "idle" /\ sig.cube_shape # sig.signals_shape) =>
        /\ sig.pc \in {"entry", "raised"}
        /\ sig.pc = "raised" => sig.error = "ValueError"
        /\ sig.poisson_calls = 0
        /\ sig.newcube = <<>>
        /\ sig.result = <<>>

C4_Witness ==
    /\ sig.pc = "raised" /\ sig.error = "ValueError"
    /\ sig.cube_shape = <<2, 1, 1>> /\ sig.signals_shape = <<2, 1, 2>>

C5_ZeroSignal == \A n \in DOMAIN sig.signals : \A p \in DOMAIN sig.signals[n] : sig.signals[n][p] = 0

\* C5: with an all-zero signal cube of the dark ramp's shape, zodi_scale = 0
\* and photon_yield = False, add_signal returns (it does not raise) a cube
\* equal to the dark ramp in every frame and pixel, and the dark ramp it was
\* given is as the caller handed it over.
C5_ZeroSignalIdentity ==
    (sig.pc # "idle" /\ sig.cube_shape = sig.signals_shape /\ C5_ZeroSignal
        /\ sig.zodi_scale = 0 /\ ~sig.photon_yield) =>
        /\ sig.pc # "raised"
        /\ sig.cube = sig.arg_cube
        /\ sig.pc = "returned" => sig.result = sig.arg_cube

C5_Witness ==
    /\ sig.pc = "returned"
    /\ sig.cube_shape = <<2, 1, 2>> /\ sig.signals_shape = <<2, 1, 2>>
    /\ C5_ZeroSignal /\ sig.zodi_scale = 0 /\ ~sig.photon_yield
    /\ sig.gain = 2
    /\ sig.arg_cube = <<Full(<<1, 2>>, 4), Full(<<1, 2>>, 2)>>
    /\ sig.result = sig.arg_cube

\* C6: when the photon-yield map and the background are non-negative, the
\* cube add_signal returns is non-decreasing along the frame axis at every
\* pixel, with photon_yield on or off.  (Stated here for dark ramps that are
\* themselves non-decreasing, the only ones for which it can be meant.)
C6_OutputNonDecreasing ==
    (sig.pc = "returned" /\ NonDecreasing(sig.arg_cube)
        /\ ~HasNegative(sig.pyimage) /\ ~HasNegative(sig.background)) =>
        NonDecreasing(sig.result)

\* The rate the arguments derive for frame n (counted from 1), as the
\* claims write it: signal * gain * frametime * yield + background.
DerivedRate(n) ==
    DirectRate_NoAbs(FrameSignal(sig.signals[n], sig.gain, sig.frametime), sig.pyimage,
                     Background(sig.zodi, sig.zodi_scale, sig.frametime))

C14_NegativeRate ==
    \E n \in DOMAIN sig.signals :
        \/ HasNegative(DerivedRate(n))
        \/ /\ sig.photon_yield
           /\ \/ HasNegative(FrameSignal(sig.signals[n], sig.gain, sig.frametime))
              \/ HasNegative(Background(sig.zodi, sig.zodi_scale, sig.frametime))

\* C14: when the arguments derive a negative Poisson rate, add_signal fails:
\* it returns no cube and draws from no rate other than the derived one,
\* with photon_yield on or off.
C14_NegativeRateFatal ==
    (sig.pc # "idle" /\ SameShape(sig.cube_shape, sig.signals_shape) /\ C14_NegativeRate) =>
        /\ sig.pc # "returned"
        /\ \A i \in DOMAIN sig.drawn :
              sig.drawn[i].lam # <<>> => sig.drawn[i].lam = DerivedRate(i)

C16_YieldCase ==
    /\ sig.photon_yield
    /\ SameShape(sig.cube_shape, sig.signals_shape)
    /\ YieldPixels(sig.pyimage) # {}

\* C16: with photon_yield on and a pixel of yield above 1, the frames are
\* written in order 0..N-1, each once and at its own index; frame 0 holds its
\* own counts and frame n holds frame n-1 plus the counts drawn for frame n;
\* no index outside the cube is written.
C16_FramesInOrder ==
    (sig.pc # "idle" /\ C16_YieldCase) =>
        /\ sig.error # "IndexError"
        /\ sig.written = [i \in 1..Len(sig.written) |-> i - 1]
        /\ sig.pc \in {"loop", "returned"} =>
              /\ Len(sig.written) = sig.it
              /\ \A n \in 1..sig.it : \A p \in DOMAIN sig.newcube[n] :
                    sig.newcube[n][p] =
                        (IF n = 1 THEN 0 ELSE sig.newcube[n - 1][p]) + sig.drawn[n].newvalues[p]

RECURSIVE C17_Accumulated(_, _)
\* d_0 + ... + d_(n-1) at pixel p, d_i being the draw made in pass i
C17_Accumulated(n, p) ==
    IF n = 0 THEN 0 ELSE C17_Accumulated(n - 1, p) + sig.drawn[n].newvalues[p]

C17_DirectCase ==
    /\ ~sig.photon_yield
    /\ SameShape(sig.cube_shape, sig.signals_shape)
    /\ \A n \in DOMAIN sig.signals : ~HasNegative(DerivedRate(n))

\* C17: with photon_yield off (and rates that are rates, none negative),
\* pass i makes one Poisson draw d_i from
\* signal[i]*gain*frametime*yield + zodi*zodi_scale*frametime, there is one
\* pass for every frame of the cube, and the cube returned is
\* dark_ramp[n] + (d_0 + ... + d_n) / gain at every frame n and pixel.
C17_DirectAccumulation ==
    (sig.pc \in {"loop", "returned"} /\ C17_DirectCase) =>
        /\ Len(sig.drawn) = sig.it
        /\ sig.poisson_calls = sig.it
        /\ \A i \in DOMAIN sig.drawn :
              /\ sig.drawn[i].lam = DerivedRate(i)
              /\ \A p \in DOMAIN sig.drawn[i].lam :
                    sig.drawn[i].newvalues[p] \in PoissonOutcomes(DerivedRate(i)[p])
        /\ sig.pc = "returned" =>
              /\ sig.it = sig.cube_shape[1]
              /\ \A n \in DOMAIN sig.result : \A p \in DOMAIN sig.result[n] :
                    sig.result[n][p] =
                        sig.arg_cube[n][p] + PerGain(C17_Accumulated(n, p), sig.gain)

\* A returned ramp of two frames with photon_yield off, gain 2, in which both
\* passes drew an electron at some pixel.
C17_Witness ==
    /\ sig.pc = "returned"
    /\ C17_DirectCase
    /\ sig.cube_shape[1] = 2
    /\ sig.gain = 2
    /\ \E p \in DOMAIN sig.result[2] :
          /\ sig.drawn[1].newvalues[p] = 1 /\ sig.drawn[2].newvalues[p] = 1
          /\ sig.result[2][p] = sig.arg_cube[2][p] + 2
          /\ sig.result[1][p] = sig.arg_cube[1][p] + 1

----------------------------------------------------------------------------
(* Claims about the non-linearity step, checked under SpecNonLinearity      *)

C7_ZeroStack ==
    \A n \in DOMAIN nlin.nonlinearity :
        \A p \in DOMAIN nlin.nonlinearity[n] : nlin.nonlinearity[n][p] = 0

\* C7: for every ramp cube and every offset, non_linearity with an all-zero
\* coefficient stack (of the cube's spatial shape) returns a cube equal to
\* the input in every frame and pixel, and leaves the input cube as it was.
C7_ZeroStackIdentity ==
    (nlin.pc # "idle" /\ C7_ZeroStack
        /\ nlin.dims1[2] = nlin.dims2[2] /\ nlin.dims1[3] = nlin.dims2[3]) =>
        /\ nlin.pc # "raised"
        /\ nlin.cube = nlin.arg_cube
        /\ nlin.pc = "returned" => nlin.result = nlin.arg_cube

\* C13: non_linearity raises whenever the coefficient stack and the cube
\* differ in rows or in columns; such a call never returns a result.
C13_MismatchFatal ==
    (nlin.pc # "idle" /\ (nlin.dims1[2] # nlin.dims2[2] \/ nlin.dims1[3] # nlin.dims2[3])) =>
        /\ nlin.pc \in {"entry", "raised"}
        /\ nlin.result = <<>>

RECURSIVE C18_Series(_, _, _, _)
\* coeff[0] * g^1 + ... + coeff[m-1] * g^m at pixel p, the code's plane
\* index n being place n + 1 of the stack here
C18_Series(stack, p, g, m) ==
    IF m = 0 THEN 0
    ELSE C18_Series(stack, p, g, m - 1) + stack[m][p] * Pow(g, m)

C18_Expected(k, p) ==
    LET g == nlin.arg_cube[k][p] - nlin.offset
    IN g * (1 + C18_Series(nlin.nonlinearity, p, g, Len(nlin.nonlinearity)))

C18_SameSpatialShape == nlin.dims1[2] = nlin.dims2[2] /\ nlin.dims1[3] = nlin.dims2[3]

\* C18: every frame comes back as offset + g * (1 + sum of coeff[n] * g^(n+1))
\* with g = frame - offset, plane n multiplying the power n + 1; a frame is
\* changed by its own step only: while the loop runs, the frames done hold
\* their polynomial and the frames to come are still frame - offset.
C18_PolynomialPerFrame ==
    (nlin.pc \in {"loop", "returned"} /\ C18_SameSpatialShape) =>
        /\ \A k \in DOMAIN nlin.newcube : \A p \in DOMAIN nlin.newcube[k] :
              nlin.newcube[k][p] = IF k <= nlin.k THEN C18_Expected(k, p)
                                   ELSE nlin.arg_cube[k][p] - nlin.offset
        /\ nlin.pc = "returned" =>
              \A k \in DOMAIN nlin.result : \A p \in DOMAIN nlin.result[k] :
                 nlin.result[k][p] = nlin.offset + C18_Expected(k, p)

\* A returned ramp of two frames and a two-plane stack whose planes differ at
\* a pixel where g is neither 0 nor +-1, so that the powers tell the planes
\* apart.
C18_Witness ==
    /\ nlin.pc = "returned"
    /\ C18_SameSpatialShape
    /\ nlin.dims2[1] = 2
    /\ Len(nlin.nonlinearity) = 2
    /\ \E p \in DOMAIN nlin.arg_cube[1] :
          /\ nlin.nonlinearity[1][p] # nlin.nonlinearity[2][p]
          /\ nlin.arg_cube[1][p] - nlin.offset \notin {-1, 0, 1}
          /\ nlin.result[1][p] # nlin.arg_cube[1][p]
          /\ nlin.result[2] # nlin.result[1]

----------------------------------------------------------------------------
(* Claims about the pedestal step, checked under SpecPedestal               *)

\* The sum cube + pedestal at frame n, pixel p, in half-ADU, and what is
\* left of it after the returned value is taken off again.
C8_Sum(n, p) == NAdd(ped.arg_cube[n][p], At(ped.pedestal, p))
C8_Difference(n, p) == NSub(C8_Sum(n, p), NAdd(ped.result[n][p], ped.result[n][p]))
C8_Truncated(n, p) == C8_Difference(n, p) \in {<<0, 0>>, <<0, 1>>}
C8_Applied == ped.pc = "returned" /\ ped.offset = 500

\* C8, as stated: for every cube and pedestal image, at every pixel (those
\* where cube + pedestal is negative or past the uint32 range included),
\* add_pedestal(cube, pedestal, 500) less the pedestal is the cube value up
\* to truncation: the difference is in [0, 1) ADU.
C8_RoundTripEveryInput ==
    C8_Applied =>
        \A n \in DOMAIN ped.result : \A p \in DOMAIN ped.result[n] : C8_Truncated(n, p)

C8_Exact(n, p) ==
    /\ ~NIsNeg(C8_Sum(n, p))
    /\ NLess(C8_Sum(n, p), <<2 * LimbBase, 0>>)
    /\ ToFloat32N(C8_Sum(n, p)) = C8_Sum(n, p)

\* C8, amended: the same, at every pixel where cube + pedestal lies in
\* [0, 2^32) and is a value float32 holds exactly; the input cube is left as
\* it was.
C8_RoundTripInRange ==
    C8_Applied =>
        /\ ped.cube = ped.arg_cube
        /\ \A n \in DOMAIN ped.result : \A p \in DOMAIN ped.result[n] :
              C8_Exact(n, p) => C8_Truncated(n, p)

\* A returned ramp with a pixel whose sum is in range, exact and fractional,
\* so that the cast dropped half an ADU.
C8_Witness ==
    /\ C8_Applied
    /\ \E n \in DOMAIN ped.result : \E p \in DOMAIN ped.result[n] :
          /\ C8_Exact(n, p)
          /\ C8_Difference(n, p) = <<0, 1>>
          /\ ped.result[n][p] # <<0, 0>>

----------------------------------------------------------------------------
(* Claims about the light curve of a pixel, checked under SpecLightcurve    *)

C11_BackgroundPixel ==
    \/ llc.distance > llc.trace_radius + llc.extend
    \/ llc.wavelength < MinOf(llc.star.wave)

\* C11: for a pixel farther than trace_radius + extend from the trace, or of
\* a wavelength below the star's, lambda_lightcurve returns, for every time,
\* |floor + a unit-variance draw| and nothing else: it consults neither the
\* star's flux, the planet, the response, the PSF weight nor the transit
\* model, and leaves params as it was.
C11_BackgroundIsNoise ==
    (llc.pc \notin {"idle", "entry"} /\ C11_BackgroundPixel) =>
        /\ llc.pc = "returned"
        /\ Len(llc.flux) = Len(llc.time)
        /\ \A i \in DOMAIN llc.flux :
              \E z \in NormalZ : llc.flux[i] = Abs(llc.floor + Count * z)
        /\ llc.flux = [i \in DOMAIN llc.noise |-> Abs(llc.noise[i])]
        /\ llc.reads \subseteq {"distance", "trace_radius", "extend", "wavelength",
                                "star_wave", "floor", "time"}
        /\ llc.params = llc.arg_params
        /\ llc.model_params = NoParams

\* A pixel beyond the trace, with a planet and transit parameters on offer,
\* whose first draw fell below zero, so that np.abs acted.
C11_Witness ==
    /\ llc.pc = "returned"
    /\ llc.distance > llc.trace_radius + llc.extend
    /\ llc.wavelength >= MinOf(llc.star.wave)
    /\ llc.planet # NoPlanet /\ llc.arg_params # NoParams
    /\ Len(llc.time) = 2
    /\ llc.noise[1] < 0 /\ llc.flux[1] = Count
    /\ llc.flux[2] = 3 * Count

\* C19: for a pixel inside the trace, every time whose converted, weighted
\* value is below the floor comes back as floor + that time's draw, whatever
\* the value was, and every other time comes back as it was.
C19_FloorReplaces ==
    (llc.pc = "returned" /\ ~C11_BackgroundPixel) =>
        /\ Len(llc.floor_noise) = Cardinality(BelowFloor(llc.scaled, llc.floor))
        /\ llc.flux = AddFloorNoise_Replace(llc.scaled, llc.floor, llc.floor_noise)

----------------------------------------------------------------------------
(* Claims about run_simulation, checked under SpecSimulation.              *)

\* C12: whatever order the workers finish in, the cube of an order holds at
\* frame f, row r, column c the f-th element of the light curve computed
\* from the wavelength, response, distance and limb-darkening entries at the
\* flattened index of (r, c), which is (r-1)*ncols + c counting from 1.
C12_Reassembled ==
    sim.tso_order # << >> =>
        \A f \in 1..sim.nframes, r \in 1..sim.nrows, c \in 1..sim.ncols :
            LET i == (r - 1) * sim.ncols + c
            IN /\ sim.computed[i].inputs =
                    [wavelength |-> sim.local_wave[i], response |-> sim.local_response[i],
                     distance |-> sim.local_distance[i], ld_coeffs |-> sim.local_ld_coeffs[i]]
               /\ sim.tso_order[f][<<r, c>>] = sim.computed[i].flux[f]

\* A cube of two frames was put together from light curves that differ, the
\* first result to arrive not being that of the first pixel.
C12_Witness ==
    /\ sim.tso_order # << >>
    /\ sim.nframes = 2
    /\ sim.arrived[1] # 1
    /\ sim.arrived[Len(sim.arrived)] # Len(sim.arrived)
    /\ \E i, j \in 1..sim.ntasks : sim.computed[i].flux # sim.computed[j].flux

\* The pixels whose transit model has been evaluated.
C20_Modelled ==
    {i \in 1..sim.ntasks : sim.computed[i].model_params.kind = "TransitParams"}

\* C20: in every interleaving the transit model of a pixel is evaluated with
\* the limb-darkening profile, the coefficients and the radius ratio of that
\* pixel, and the params of the caller keep the values they came with.
C20_OwnParams ==
    /\ sim.params[0] = sim.arg_params
    /\ \A i \in C20_Modelled :
          sim.computed[i].model_params =
              [kind |-> "TransitParams",
               limb_dark |-> sim.ld_profile,
               u |-> sim.local_ld_coeffs[i],
               rp |-> PlanetRadius(sim.local_wave[i], sim.planet)]

\* A pixel's model has been evaluated while two workers, each between
\* setting its parameters and evaluating its model, hold different values.
C20_Witness ==
    /\ C20_Modelled # {}
    /\ sim.arg_params.kind = "TransitParams"
    /\ \E w, v \in 1..Processes :
          /\ sim.workers[w].pc = "model"
          /\ sim.workers[v].pc = "model"
          /\ sim.params[w].rp # sim.params[v].rp
          /\ sim.params[w].rp # sim.arg_params.rp

RECURSIVE C21_Combined(_, _)
\* The exposure cube after the first n of the cubes have been added to it.
C21_Combined(cubes, n) ==
    IF n = 0 THEN [f \in 1..sim.nframes |-> Full(SimShape, 0)]
    ELSE LET before == C21_Combined(cubes, n - 1)
         IN [f \in 1..sim.nframes |->
                [p \in Pix(SimShape) |-> Abs(before[f][p] + cubes[n].cube[f][p])]]

\* C21: once the evaluation of a pixel has raised in the pool,
\* run_simulation does not complete: it ends by raising the error of the
\* worker, no cube is assembled for the order of that pixel, and the
\* exposure cube holds the orders before it and nothing of the failing one.
C21_FailureSurfaces ==
    sim.failed # {} =>
        /\ sim.pc \in {"pool", "raised"}
        /\ sim.worker_error \in {"ValueError", "AttributeError"}
        /\ sim.pc = "raised" => sim.error = sim.worker_error
        /\ sim.tso_order = << >>
        /\ \A t \in sim.failed : \A k \in DOMAIN sim.cubes : sim.cubes[k].order # t[1]
        /\ sim.tso = C21_Combined(sim.cubes, Len(sim.cubes))

\* Order 1 was added to the exposure cube, a pixel of order 2 raised after
\* other pixels of that order had returned, and run_simulation has raised.
C21_Witness ==
    /\ sim.pc = "raised"
    /\ sim.error = "ValueError"
    /\ sim.failed # {}
    /\ Len(sim.cubes) = 1
    /\ sim.order = 2
    /\ sim.arrived # << >>

\* C22: with orders 1 and 2 simulated on a zero exposure cube, the cube to
\* which the dark ramp is then added is |order1 + order2| at every frame and
\* pixel, the absolute value being taken once, of the sum of both orders.
C22_AbsOnce ==
    (sim.pc = "darks" /\ Len(sim.cubes) = 2) =>
        \A f \in 1..sim.nframes, p \in Pix(SimShape) :
            sim.tso[f][p] = Abs(sim.cubes[1].cube[f][p] + sim.cubes[2].cube[f][p])

====
